---- MODULE Spec2Model ----
(***************************************************************************)
(* A model of the log-structured key-value store of datastore/db.go:       *)
(* segment files in one directory, the in-memory index, Put / Get / Size,  *)
(* the background compaction started by Compact, Close, and Open with its  *)
(* recovery scan.                                                          *)
(***************************************************************************)
EXTENDS Integers, Sequences, FiniteSets, TLC

\* ------------------------------------------------------------------ bounds
NumThreads == 2          \* client threads calling the store concurrently
MaxPuts == 3             \* Put calls in one run
MaxCompactions == 2      \* Compact calls that start a background task
MaxOpens == 1            \* Close-then-Open cycles in one run
MaxCrashes == 1          \* process stops in one run (SpecCrash only)
MaxFaults == 1           \* failing file-system calls in one run (SpecFaults only)

Threads == 1..NumThreads
Goroutines == 1..MaxCompactions

Keys == {"a", "b"}
Values == {"x", "yy"}
WorkerKeys == {"a", "b", "c", "d"}   \* the keys of the concurrent workers
AllKeys == Keys \cup WorkerKeys
MaxSegmentSizes == {15}   \* values of Open's maxSegmentSize parameter

NoValue == "-"

\* values of db.mu
Free == [holder |-> "none", id |-> 0]
HeldBy(kind, id) == [holder |-> kind, id |-> id]

VARIABLES
    files,          \* the directory: file name -> sequence of records
    segments,       \* Db.segments: sequence of Segment
    index,          \* Db.index: key -> SegmentPos
    maxSegmentSize, \* Db.maxSegmentSize
    mu,             \* Db.mu: Free or its holder
    isCompacting,   \* Db.isCompacting
    wg,             \* Db.compactionWg counter
    thr,            \* each client thread: its call in progress and last result
    gor,            \* each background compaction task: its position and locals
    spawned,        \* number of background tasks started so far
    phase,          \* "open", "closing", "closed", "down", "opened", "failed"
    model,          \* history: key -> value of the latest Put (NoValue if none)
    pre,            \* history: the store as the running compaction found it
    expect,         \* history: Get results recorded at the last Close or stop
    awaited,        \* history: the tasks running when Close was called
    putFailed,      \* history: some Put has returned an error
    lastGet,        \* history: how the last Get's result compares with model
    lastPut,        \* history: how the last Put returned
    puts, opens, crashes,  \* counters that bound the run
    faults,
    healthyServers, \* the router's map: backend -> result of its last poll
    lastSelect,     \* history: the last call of selectServer and its result
    series          \* history: the requests of a client's series so far

\* the variables of the store
storeVars == <<files, segments, index, maxSegmentSize, mu, isCompacting, wg,
               thr, gor, spawned, phase, model, pre, expect, awaited,
               putFailed, lastGet, lastPut, puts, opens, crashes, faults>>

vars == <<files, segments, index, maxSegmentSize, mu, isCompacting, wg, thr,
          gor, spawned, phase, model, pre, expect, awaited, putFailed,
          lastGet, lastPut, puts, opens, crashes, faults, healthyServers,
          lastSelect, series>>

\* ------------------------------------------------------------ record codec
\* entry.Encode: 4-byte total length, 4-byte key length, key, 4-byte value
\* length, value.
HeaderLen == 12

EncodedLen(e) == HeaderLen + Len(e.key) + Len(e.value)

RECURSIVE FileSize(_)
FileSize(recs) ==
    IF recs = <<>> THEN 0 ELSE EncodedLen(Head(recs)) + FileSize(Tail(recs))

\* a variant of OffsetOf: the offset at which record i ends
OffsetOfEnd(recs, i) == FileSize(SubSeq(recs, 1, i))

\* byte offset at which record number i of the file starts
OffsetOf(recs, i) == FileSize(SubSeq(recs, 1, i - 1))

\* entry.DecodeFromReader on a reader positioned at byte offset off
DecodeAt(recs, off) ==
    IF \E i \in 1..Len(recs) : OffsetOf(recs, i) = off
    THEN LET i == CHOOSE j \in 1..Len(recs) : OffsetOf(recs, j) = off
         IN  [st |-> "ok", rec |-> recs[i], n |-> EncodedLen(recs[i])]
    ELSE IF off >= FileSize(recs)
         THEN [st |-> "eof"]
         ELSE [st |-> "corrupt"]

\* -------------------------------------------------------------- file names
\* fmt.Sprintf("%04d", n)
Fmt04(n) == << (n \div 1000) % 10, (n \div 100) % 10, (n \div 10) % 10, n % 10 >>

\* segmentPrefix + %04d, and the same with mergeSuffix
SegName(n) == [digits |-> Fmt04(n), suffix |-> ""]
\* a variant of MergeName: the merge is written in place of the first segment
MergeNameFirst(n) == SegName(1)

MergeName(n) == [digits |-> Fmt04(n), suffix |-> ".merge"]

RECURSIVE TrimLeftZeros(_)
TrimLeftZeros(ds) ==
    IF ds # <<>> /\ Head(ds) = 0 THEN TrimLeftZeros(Tail(ds)) ELSE ds

RECURSIVE Atoi(_)
Atoi(ds) == IF ds = <<>> THEN 0 ELSE 10 * Atoi(SubSeq(ds, 1, Len(ds) - 1)) + ds[Len(ds)]

\* extractNum: the text after the first "-" with leading zeros trimmed,
\* parsed as a decimal; 0 when nothing is left or the text is no number
extractNum(name) ==
    LET numStr == TrimLeftZeros(name.digits)
    IN  IF numStr = <<>> THEN 0
        ELSE IF name.suffix # "" THEN 0
        ELSE Atoi(numStr)

\* a variant of IsSegmentFile: the suffix is not looked at
IsAnyFile(name) == TRUE

\* strings.HasPrefix(name, segmentPrefix) && !strings.HasSuffix(name, mergeSuffix)
IsSegmentFile(name) == name.suffix # ".merge"

\* a variant of SortByNum: descending order
RECURSIVE SortByNumDescending(_)
SortByNumDescending(names) ==
    IF names = {} THEN <<>>
    ELSE LET first == CHOOSE n \in names :
                          \A m \in names : extractNum(n) >= extractNum(m)
         IN  <<first>> \o SortByNumDescending(names \ {first})

\* sort.Slice by extractNum, ascending
RECURSIVE SortByNum(_)
SortByNum(names) ==
    IF names = {} THEN <<>>
    ELSE LET first == CHOOSE n \in names :
                          \A m \in names : extractNum(n) <= extractNum(m)
         IN  <<first>> \o SortByNum(names \ {first})

\* ------------------------------------------------------------- file system
WriteFile(fs, name, recs) ==
    [n \in DOMAIN fs \cup {name} |-> IF n = name THEN recs ELSE fs[n]]

RemoveFile(fs, name) == [n \in DOMAIN fs \ {name} |-> fs[n]]

\* a variant of RenameFile: a copy, the old name stays
RenameFileKeepsOld(fs, old, new) ==
    [n \in DOMAIN fs \cup {new} |-> IF n = new THEN fs[old] ELSE fs[n]]

\* os.Rename: the new name takes the old file, replacing a file of that name
RenameFile(fs, old, new) ==
    [n \in (DOMAIN fs \ {old}) \cup {new} |-> IF n = new THEN fs[old] ELSE fs[n]]

\* -------------------------------------------------------------------- Open
\* createNewSegment: O_CREATE|O_APPEND, offset from Stat
CreatedFiles(fs, num) ==
    IF SegName(num) \in DOMAIN fs THEN fs ELSE WriteFile(fs, SegName(num), <<>>)

createNewSegment(fs, num) ==
    [num |-> num, name |-> SegName(num),
     offset |-> FileSize(CreatedFiles(fs, num)[SegName(num)]), open |-> TRUE]

openSegment(fs, name) ==
    [num |-> extractNum(name), name |-> name, offset |-> FileSize(fs[name]),
     open |-> TRUE]

\* a variant of RecoverFrom: a key that has an index entry keeps it
RECURSIVE RecoverFromKeepFirst(_, _, _, _)
RecoverFromKeepFirst(idx, seg, recs, i) ==
    IF i > Len(recs) THEN idx
    ELSE LET pos == [segmentNum |-> seg.num, offset |-> OffsetOf(recs, i)]
             k == recs[i].key
         IN  RecoverFromKeepFirst([x \in DOMAIN idx \cup {k} |->
                                      IF x \in DOMAIN idx THEN idx[x] ELSE pos],
                                  seg, recs, i + 1)

\* recoverSegment: every record of the segment's file, in file order, sets
\* index[key] to (seg.num, offset of the record's start)
RECURSIVE RecoverFrom(_, _, _, _)
RecoverFrom(idx, seg, recs, i) ==
    IF i > Len(recs) THEN idx
    ELSE LET pos == [segmentNum |-> seg.num, offset |-> OffsetOf(recs, i)]
             k == recs[i].key
         IN  RecoverFrom([x \in DOMAIN idx \cup {k} |->
                             IF x = k THEN pos ELSE idx[x]],
                         seg, recs, i + 1)

recoverSegment(idx, seg, fs) == RecoverFrom(idx, seg, fs[seg.name], 1)

RECURSIVE RecoverAll(_, _, _, _)
RecoverAll(idx, segs, fs, i) ==
    IF i > Len(segs) THEN idx
    ELSE RecoverAll(recoverSegment(idx, segs[i], fs), segs, fs, i + 1)

EmptyIndex == [x \in {} |-> 0]

\* the segment files of the directory, in extractNum order
ScanDir(fs) == SortByNum({n \in DOMAIN fs : IsSegmentFile(n)})

\* Open's and the post-compaction rebuild's result on directory fs
OpenDb(fs) ==
    LET names == ScanDir(fs)
        opened == [i \in 1..Len(names) |-> openSegment(fs, names[i])]
        fs1 == IF Len(opened) = 0 THEN CreatedFiles(fs, 1) ELSE fs
        segs == IF Len(opened) = 0 THEN <<createNewSegment(fs, 1)>> ELSE opened
    IN  [files |-> fs1, segments |-> segs,
         index |-> RecoverAll(EmptyIndex, segs, fs1, 1)]

\* --------------------------------------------------------------------- Get
findSegment(segs, num) ==
    IF \E i \in 1..Len(segs) : segs[i].num = num
    THEN LET i == CHOOSE j \in 1..Len(segs) :
                      segs[j].num = num /\ \A l \in 1..(j - 1) : segs[l].num # num
         IN  <<segs[i]>>
    ELSE <<>>

NotFound == [st |-> "notfound", value |-> NoValue]
Failed == [st |-> "err", value |-> NoValue]
Found(v) == [st |-> "ok", value |-> v]

\* a variant of ReadAt: no seek, the first record of the file is decoded
ReadAtStart(fs, seg, pos) ==
    IF seg.name \notin DOMAIN fs THEN Failed
    ELSE LET d == DecodeAt(fs[seg.name], 0)
         IN  IF d.st = "ok" THEN Found(d.rec.value) ELSE Failed

\* the file part of Get: open the segment's path, seek, decode one record
ReadAt(fs, seg, pos) ==
    IF seg.name \notin DOMAIN fs THEN Failed
    ELSE LET d == DecodeAt(fs[seg.name], pos.offset)
         IN  IF d.st = "ok" THEN Found(d.rec.value) ELSE Failed

\* a variant of GetIn: the index is read without its ok result, a key that
\* is not there yields SegmentPos{0, 0}
GetInZeroPos(fs, segs, idx, key) ==
    LET pos == IF key \in DOMAIN idx THEN idx[key]
               ELSE [segmentNum |-> 0, offset |-> 0]
        seg == findSegment(segs, pos.segmentNum)
    IN  IF seg = <<>> THEN Failed ELSE ReadAt(fs, seg[1], pos)

\* what Get(key) returns on the store (fs, segs, idx)
GetIn(fs, segs, idx, key) ==
    IF key \notin DOMAIN idx THEN NotFound
    ELSE LET seg == findSegment(segs, idx[key].segmentNum)
         IN  IF seg = <<>> THEN Failed ELSE ReadAt(fs, seg[1], idx[key])

Get(key) == GetIn(files, segments, index, key)

GetMap == [k \in Keys |-> Get(k)]

\* -------------------------------------------------------------------- Size
RECURSIVE SumSizes(_, _)
SumSizes(fs, segs) ==
    IF segs = <<>> THEN 0
    ELSE FileSize(fs[Head(segs).name]) + SumSizes(fs, Tail(segs))

\* a variant of SizeIn: the size of the first segment only
SizeInFirst(fs, segs) ==
    IF \E i \in 1..Len(segs) : ~segs[i].open
    THEN [st |-> "err", value |-> 0]
    ELSE [st |-> "ok", value |-> SumSizes(fs, SubSeq(segs, 1, 1))]

\* Size: Stat on every segment handle; a closed handle fails
SizeIn(fs, segs) ==
    IF \E i \in 1..Len(segs) : ~segs[i].open
    THEN [st |-> "err", value |-> 0]
    ELSE [st |-> "ok", value |-> SumSizes(fs, segs)]

Size == SizeIn(files, segments)

\* --------------------------------------------------------------------- Put
\* a variant of getActiveSegment: the first segment of the list
getFirstSegment(segs) == segs[1]

getActiveSegment(segs) == segs[Len(segs)]

\* a variant of PutIn: the index entry takes the offset after the write
PutInPostOffset(fs, segs, idx, max, key, value) ==
    LET active == getActiveSegment(segs)
        roll == active.offset >= max
        fs1 == IF roll THEN CreatedFiles(fs, active.num + 1) ELSE fs
        segs1 == IF roll THEN Append(segs, createNewSegment(fs, active.num + 1))
                 ELSE segs
        a == getActiveSegment(segs1)
        e == [key |-> key, value |-> value]
    IN  IF ~a.open
        THEN [files |-> fs1, segments |-> segs1, index |-> idx, err |-> TRUE]
        ELSE [files |-> IF a.name \in DOMAIN fs1
                        THEN WriteFile(fs1, a.name, Append(fs1[a.name], e))
                        ELSE fs1,
              segments |-> [segs1 EXCEPT ![Len(segs1)].offset = @ + EncodedLen(e)],
              index |-> [x \in DOMAIN idx \cup {key} |->
                            IF x = key
                            THEN [segmentNum |-> a.num,
                                  offset |-> a.offset + EncodedLen(e)]
                            ELSE idx[x]],
              err |-> FALSE]

\* a variant of PutIn: the active segment is never replaced
PutInNoRollover(fs, segs, idx, max, key, value) ==
    LET a == getActiveSegment(segs)
        e == [key |-> key, value |-> value]
    IN  IF ~a.open
        THEN [files |-> fs, segments |-> segs, index |-> idx, err |-> TRUE]
        ELSE [files |-> WriteFile(fs, a.name, Append(fs[a.name], e)),
              segments |-> [segs EXCEPT ![Len(segs)].offset = @ + EncodedLen(e)],
              index |-> [x \in DOMAIN idx \cup {key} |->
                            IF x = key
                            THEN [segmentNum |-> a.num, offset |-> a.offset]
                            ELSE idx[x]],
              err |-> FALSE]

\* a variant of PutIn: roll over when the record would end beyond max
PutInRollIfNoRoom(fs, segs, idx, max, key, value) ==
    LET active == getActiveSegment(segs)
        e == [key |-> key, value |-> value]
        roll == active.offset + EncodedLen(e) > max
        fs1 == IF roll THEN CreatedFiles(fs, active.num + 1) ELSE fs
        segs1 == IF roll THEN Append(segs, createNewSegment(fs, active.num + 1))
                 ELSE segs
        a == getActiveSegment(segs1)
    IN  IF ~a.open
        THEN [files |-> fs1, segments |-> segs1, index |-> idx, err |-> TRUE]
        ELSE [files |-> IF a.name \in DOMAIN fs1
                        THEN WriteFile(fs1, a.name, Append(fs1[a.name], e))
                        ELSE fs1,
              segments |-> [segs1 EXCEPT ![Len(segs1)].offset = @ + EncodedLen(e)],
              index |-> [x \in DOMAIN idx \cup {key} |->
                            IF x = key
                            THEN [segmentNum |-> a.num, offset |-> a.offset]
                            ELSE idx[x]],
              err |-> FALSE]

\* Put's effect on the store: roll over when the active segment's offset has
\* reached max, write the record through the active handle, then set the
\* index entry to the pre-write offset and advance the offset
PutIn(fs, segs, idx, max, key, value) ==
    LET active == getActiveSegment(segs)
        roll == active.offset >= max
        fs1 == IF roll THEN CreatedFiles(fs, active.num + 1) ELSE fs
        segs1 == IF roll THEN Append(segs, createNewSegment(fs, active.num + 1))
                 ELSE segs
        a == getActiveSegment(segs1)
        e == [key |-> key, value |-> value]
    IN  IF ~a.open
        THEN [files |-> fs1, segments |-> segs1, index |-> idx, err |-> TRUE]
        ELSE [files |-> IF a.name \in DOMAIN fs1
                        THEN WriteFile(fs1, a.name, Append(fs1[a.name], e))
                        ELSE fs1,
              segments |-> [segs1 EXCEPT ![Len(segs1)].offset = @ + EncodedLen(e)],
              index |-> [x \in DOMAIN idx \cup {key} |->
                            IF x = key
                            THEN [segmentNum |-> a.num, offset |-> a.offset]
                            ELSE idx[x]],
              err |-> FALSE]

\* ----------------------------------------------------------- client threads
\* a thread: where it is in its call, and the key of a Get in progress
Idle == [pc |-> "idle", key |-> NoValue]

Expected(v) == IF v = NoValue THEN NotFound ELSE Found(v)

\* history: a Get's result against the latest Put of its key at the moment the
\* Get held the lock
Outcome(res, latest) ==
    IF res = Failed THEN "error"
    ELSE IF res # Expected(latest) THEN "wrong"
    ELSE IF res = NotFound THEN "notfound"
    ELSE "value"

\* Put(k, v), from db.mu.Lock() to the deferred Unlock
Put(t, k, v) ==
    /\ phase = "open"
    /\ thr[t].pc = "idle"
    /\ puts < MaxPuts
    /\ mu = Free
    /\ Len(segments) > 0
    /\ puts' = puts + 1
    /\ LET r == PutIn(files, segments, index, maxSegmentSize, k, v)
       IN  /\ files' = r.files
           /\ segments' = r.segments
           /\ index' = r.index
           /\ model' = IF r.err THEN model ELSE [model EXCEPT ![k] = v]
           /\ putFailed' = (putFailed \/ r.err)
           /\ lastPut' = IF r.err THEN "err" ELSE "ok"
    /\ pre' = [pre EXCEPT !.done = FALSE]
    /\ UNCHANGED <<maxSegmentSize, mu, isCompacting, wg, thr, gor, spawned,
                   phase, expect, awaited, lastGet, opens, crashes,
                   faults,
                   healthyServers, lastSelect, series>>

\* Get(k) up to findSegment: db.mu.Lock(), the index lookup, the segment
\* lookup; the two early returns release the lock
GetLookup(t, k) ==
    /\ phase = "open"
    /\ thr[t].pc = "idle"
    /\ mu = Free
    /\ IF k \notin DOMAIN index
       THEN /\ lastGet' = Outcome(NotFound, model[k])
            /\ UNCHANGED <<thr, mu>>
       ELSE IF findSegment(segments, index[k].segmentNum) = <<>>
       THEN /\ lastGet' = Outcome(Failed, model[k])
            /\ UNCHANGED <<thr, mu>>
       ELSE /\ thr' = [thr EXCEPT ![t] = [pc |-> "get_io", key |-> k]]
            /\ mu' = HeldBy("thread", t)
            /\ lastGet' = lastGet
    /\ UNCHANGED <<files, segments, index, maxSegmentSize, isCompacting, wg,
                   gor, spawned, phase, model, pre, expect, awaited,
                   putFailed, puts, opens, crashes,
                   faults,
                   lastPut,
                   healthyServers, lastSelect, series>>

\* history: the key of the record that Get decodes at pos
DecodedKey(fs, seg, pos) ==
    IF seg.name \notin DOMAIN fs THEN NoValue
    ELSE LET d == DecodeAt(fs[seg.name], pos.offset)
         IN  IF d.st = "ok" THEN d.rec.key ELSE NoValue

\* Get's file part, the return of record.value and the deferred Unlock
GetRead(t) ==
    /\ thr[t].pc = "get_io"
    /\ mu = HeldBy("thread", t)
    /\ LET pos == index[thr[t].key]
           seg == findSegment(segments, pos.segmentNum)[1]
           res == ReadAt(files, seg, pos)
       IN  lastGet' = IF /\ res.st = "ok"
                         /\ DecodedKey(files, seg, pos) # thr[t].key
                      THEN "otherkey"
                      ELSE Outcome(res, model[thr[t].key])
    /\ thr' = [thr EXCEPT ![t] = Idle]
    /\ mu' = Free
    /\ UNCHANGED <<files, segments, index, maxSegmentSize, isCompacting, wg,
                   gor, spawned, phase, model, pre, expect, awaited,
                   putFailed, puts, opens, crashes,
                   faults,
                   lastPut,
                   healthyServers, lastSelect, series>>

\* ------------------------------------------------------------------ router
\* the pool of backends (var serversPool)
serversPool == <<"server1:8080", "server2:8080", "server3:8080">>

\* healthyServers as make(map[string]bool) leaves it: no backend polled yet
NoPolls == [s \in {} |-> FALSE]

\* request paths, as sequences of bytes: "/", "/a", "/b", "/ab", "/ba"
Paths == {<<47>>, <<47, 97>>, <<47, 98>>, <<47, 97, 98>>, <<47, 98, 97>>}

\* a uint32 is kept as two 16-bit halves
Half == 65536

\* exclusive or of two numbers of n bits
RECURSIVE XorBits(_, _, _)
XorBits(a, b, n) ==
    IF n = 0 THEN 0
    ELSE (((a % 2) + (b % 2)) % 2) + 2 * XorBits(a \div 2, b \div 2, n - 1)

\* FNV-1a, 32 bits: the offset basis 0x811C9DC5 and the prime 0x01000193,
\* which is 2^24 + 403
FnvOffsetHi == 33052
FnvOffsetLo == 40389
FnvPrimeLow == 403

\* one byte of FNV-1a: hash ^= b, then hash *= prime, modulo 2^32
FnvByte(h, b) ==
    LET lo == (h.lo \div 256) * 256 + XorBits(h.lo % 256, b, 8)
    IN  [hi |-> (h.hi * FnvPrimeLow + ((lo * FnvPrimeLow) \div Half)
                 + (lo % 256) * 256) % Half,
         lo |-> (lo * FnvPrimeLow) % Half]

RECURSIVE FnvFrom(_, _, _)
FnvFrom(h, path, i) ==
    IF i > Len(path) THEN h ELSE FnvFrom(FnvByte(h, path[i]), path, i + 1)

\* hashFunc: fnv.New32a over the bytes of the path
hashFunc(path) == FnvFrom([hi |-> FnvOffsetHi, lo |-> FnvOffsetLo], path, 1)

\* hash % uint32(n) of a uint32 kept in halves
ModUint32(h, n) == ((h.hi % n) * (Half % n) + (h.lo % n)) % n

\* a variant of Probe: only the backend at the start index is looked at
ProbeOnce(healthy, start, i) ==
    LET server == serversPool[(start % Len(serversPool)) + 1]
    IN  IF server \in DOMAIN healthy /\ healthy[server]
        THEN [server |-> server, err |-> FALSE]
        ELSE [server |-> "", err |-> TRUE]

\* selectServer's loop from iteration i on
RECURSIVE Probe(_, _, _)
Probe(healthy, start, i) ==
    IF i >= Len(serversPool) THEN [server |-> "", err |-> TRUE]
    ELSE LET currentIndex == (start + i) % Len(serversPool)
             server == serversPool[currentIndex + 1]
         IN  IF server \in DOMAIN healthy /\ healthy[server]
             THEN [server |-> server, err |-> FALSE]
             ELSE Probe(healthy, start, i + 1)

selectServer(healthy, path) ==
    Probe(healthy, ModUint32(hashFunc(path), Len(serversPool)), 0)

NoSelect == [called |-> FALSE, path |-> <<>>, seen |-> NoPolls,
             server |-> "", err |-> FALSE]

\* a poll of backend s stores its result under healthyMutex
HealthPoll(s, isHealthy) ==
    /\ healthyServers' = [x \in DOMAIN healthyServers \cup {s} |->
                             IF x = s THEN isHealthy ELSE healthyServers[x]]
    /\ UNCHANGED <<storeVars, lastSelect, series>>

\* a request: selectServer(path) under healthyMutex.RLock()
SelectServer(path) ==
    /\ LET r == selectServer(healthyServers, path)
       IN  lastSelect' = [called |-> TRUE, path |-> path,
                          seen |-> healthyServers,
                          server |-> r.server, err |-> r.err]
    /\ UNCHANGED <<storeVars, healthyServers, series>>

\* the requests of the integration test: GET /api/v1/some-data?id=<i>
requestCount == 10

\* "/api/v1/some-data"
SomeData == <<47, 97, 112, 105, 47, 118, 49, 47, 115, 111, 109, 101, 45, 100,
              97, 116, 97>>

\* the request target of request i: the path, "?id=" and the digit of i
Target(i) == SomeData \o <<63, 105, 100, 61, 48 + i>>

\* r.URL.Path: the request target up to the first "?" (63)
UrlPath(target) ==
    IF \E i \in 1..Len(target) : target[i] = 63
    THEN SubSeq(target, 1,
                (CHOOSE i \in 1..Len(target) :
                    target[i] = 63 /\ \A j \in 1..(i - 1) : target[j] # 63) - 1)
    ELSE target

NoRequests == [count |-> 0, from |-> {}, allHealthy |-> TRUE]

\* all backends of the pool are marked healthy in map m
AllMarked(m) ==
    \A i \in 1..Len(serversPool) :
        serversPool[i] \in DOMAIN m /\ m[serversPool[i]]

\* The frontend handler on the next request of the series: selectServer on
\* r.URL.Path, then forward, which names the backend in the lb-from header;
\* no healthy backend gives 503 and no header
Request ==
    /\ series.count < requestCount
    /\ LET r == selectServer(healthyServers, UrlPath(Target(series.count)))
       IN  series' = [count |-> series.count + 1,
                      from |-> IF r.err THEN series.from
                               ELSE series.from \cup {r.server},
                      allHealthy |-> (series.allHealthy
                                      /\ AllMarked(healthyServers))]
    /\ UNCHANGED <<storeVars, healthyServers, lastSelect>>

NextBalancer ==
    \/ \E i \in 1..Len(serversPool), b \in BOOLEAN :
           HealthPoll(serversPool[i], b)
    \/ Request

NextRouter ==
    \/ \E i \in 1..Len(serversPool), b \in BOOLEAN :
           HealthPoll(serversPool[i], b)
    \/ \E path \in Paths : SelectServer(path)

\* ----------------------------------------------------------------- Compact
NoTask == [pc |-> "none", i |-> 0, mergePath |-> MergeName(0),
           fault |-> "none"]

\* threads that have set isCompacting and not yet started their task
Entering == {u \in Threads : thr[u].pc = "compact_add"}

\* a variant of AlreadyCompacting: the flag is not looked at
NeverCompacting == FALSE

\* the check of the flag under compactionMu
AlreadyCompacting == isCompacting

\* a variant of CompactEnter: Compact waits for db.mu before it looks at the
\* flag
CompactEnterLocked(t) ==
    /\ phase = "open"
    /\ thr[t].pc = "idle"
    /\ mu = Free
    /\ IF AlreadyCompacting
       THEN UNCHANGED <<thr, isCompacting>>
       ELSE /\ spawned + Cardinality(Entering) < MaxCompactions
            /\ thr' = [thr EXCEPT ![t].pc = "compact_add"]
            /\ isCompacting' = TRUE
    /\ UNCHANGED <<files, segments, index, maxSegmentSize, mu, wg, gor,
                   spawned, phase, model, pre, expect, awaited, putFailed,
                   lastGet, puts, opens, crashes,
                   faults,
                   lastPut,
                   healthyServers, lastSelect, series>>

\* Compact up to the release of compactionMu: skip when a compaction is in
\* progress, else set the flag
CompactEnter(t) ==
    /\ phase = "open"
    /\ thr[t].pc = "idle"
    /\ IF AlreadyCompacting
       THEN UNCHANGED <<thr, isCompacting>>
       ELSE /\ spawned + Cardinality(Entering) < MaxCompactions
            /\ thr' = [thr EXCEPT ![t].pc = "compact_add"]
            /\ isCompacting' = TRUE
    /\ UNCHANGED <<files, segments, index, maxSegmentSize, mu, wg, gor,
                   spawned, phase, model, pre, expect, awaited, putFailed,
                   lastGet, puts, opens, crashes,
                   faults,
                   lastPut,
                   healthyServers, lastSelect, series>>

\* compactionWg.Add(1) and the go statement
CompactSpawn(t) ==
    /\ thr[t].pc = "compact_add"
    /\ wg' = wg + 1
    /\ spawned' = spawned + 1
    /\ gor' = [gor EXCEPT ![spawned + 1] = [NoTask EXCEPT !.pc = "start"]]
    /\ thr' = [thr EXCEPT ![t] = Idle]
    /\ UNCHANGED <<files, segments, index, maxSegmentSize, mu, isCompacting,
                   phase, model, pre, expect, awaited, putFailed, lastGet,
                   puts, opens, crashes,
                   faults,
                   lastPut,
                   healthyServers, lastSelect, series>>

\* a variant of MergeRecords: the first record of a key is kept
RECURSIVE MergeRecordsKeepFirst(_, _, _)
MergeRecordsKeepFirst(merged, recs, i) ==
    IF i > Len(recs) THEN merged
    ELSE MergeRecordsKeepFirst(
             [x \in DOMAIN merged \cup {recs[i].key} |->
                 IF x \in DOMAIN merged THEN merged[x] ELSE recs[i]],
             recs, i + 1)

\* processSegmentForCompaction over segs[1..n]: mergedKeys[record.key] = record
\* for every record, in segment order then file order
RECURSIVE MergeRecords(_, _, _)
MergeRecords(merged, recs, i) ==
    IF i > Len(recs) THEN merged
    ELSE MergeRecords([x \in DOMAIN merged \cup {recs[i].key} |->
                          IF x = recs[i].key THEN recs[i] ELSE merged[x]],
                      recs, i + 1)

RECURSIVE MergedKeys(_, _, _, _)
MergedKeys(merged, fs, segs, i) ==
    IF i > Len(segs) THEN merged
    ELSE MergedKeys(MergeRecords(merged, fs[segs[i].name], 1), fs, segs, i + 1)

\* a variant of Sealed: the active segment is merged with the others
SealedWithActive(segs) == segs

\* the sealed segments: db.segments[:len(db.segments)-1]
Sealed(segs) == SubSeq(segs, 1, Len(segs) - 1)

\* the orders in which writeMergedData may range over the map
Orders(S) == {o \in [1..Cardinality(S) -> S] :
                 \A i, j \in 1..Cardinality(S) : o[i] = o[j] => i = j}

\* all records of the listed segments, for the history variable pre
RECURSIVE AllRecords(_, _)
AllRecords(fs, segs) ==
    IF segs = <<>> THEN <<>>
    ELSE (IF Head(segs).name \in DOMAIN fs THEN fs[Head(segs).name] ELSE <<>>)
         \o AllRecords(fs, Tail(segs))

Repeats(recs) == \E i, j \in 1..Len(recs) : i < j /\ recs[i].key = recs[j].key

NoPre == [map |-> [k \in Keys |-> NotFound],
          size |-> [st |-> "ok", value |-> 0], nsegs |-> 0,
          over |-> FALSE, dup |-> FALSE,
          files |-> [n \in {} |-> <<>>], segments |-> <<>>,
          index |-> EmptyIndex, done |-> FALSE]

Snapshot ==
    [map |-> GetMap, size |-> Size, nsegs |-> Len(segments),
     over |-> Repeats(AllRecords(files, segments)),
     dup |-> Repeats(AllRecords(files, Sealed(segments))),
     files |-> files, segments |-> segments, index |-> index,
     done |-> FALSE]

\* a variant of TaskLock: performCompaction runs without db.mu
TaskLockNone(g) == Free

\* db.mu as performCompaction holds it
TaskLock(g) == HeldBy("task", g)

\* a variant of CompactionStart: the number of segments is not looked at
CompactionStartAlways(g) ==
    /\ gor[g].pc = "start"
    /\ mu = Free
    /\ LET mergePath == MergeName(getActiveSegment(segments).num + 1)
       IN  /\ gor' = [gor EXCEPT ![g].pc = "merge", ![g].mergePath = mergePath]
           /\ files' = WriteFile(files, mergePath, <<>>)
           /\ mu' = TaskLock(g)
           /\ pre' = Snapshot
    /\ UNCHANGED <<segments, index, maxSegmentSize, isCompacting, wg, thr,
                   spawned, phase, model, expect, awaited, putFailed,
                   lastGet, lastPut, puts, opens, crashes, faults,
                   healthyServers, lastSelect, series>>

\* performCompaction from db.mu.Lock() to os.Create of the merge file; with
\* fewer than two segments it returns at once
CompactionStart(g) ==
    /\ gor[g].pc = "start"
    /\ mu = Free
    /\ IF Len(segments) < 2
       THEN /\ gor' = [gor EXCEPT ![g].pc = "reset"]
            /\ UNCHANGED <<files, mu, pre>>
       ELSE LET mergePath == MergeName(getActiveSegment(segments).num + 1)
            IN  /\ gor' = [gor EXCEPT ![g].pc = "merge", ![g].mergePath = mergePath]
                /\ files' = WriteFile(files, mergePath, <<>>)
                /\ mu' = TaskLock(g)
                /\ pre' = Snapshot
    /\ UNCHANGED <<segments, index, maxSegmentSize, isCompacting, wg, thr,
                   spawned, phase, model, expect, awaited, putFailed,
                   lastGet, puts, opens, crashes,
                   faults,
                   lastPut,
                   healthyServers, lastSelect, series>>

\* a variant of MergedData: no record is written to the merge file
MergedDataNone(fs, segs, o) == <<>>

\* a variant of MergedData: every record read is written
MergedDataAll(fs, segs, o) == AllRecords(fs, segs)

\* what writeMergedData writes: the surviving record of every key, in the
\* order o of the map's iteration
MergedData(fs, segs, o) ==
    LET merged == MergedKeys(EmptyIndex, fs, segs, 1)
    IN  [i \in 1..Len(o) |-> merged[o[i]]]

\* os.Open in processSegmentForCompaction succeeds on every sealed segment
SealedReadable(fs, segs) ==
    \A i \in 1..(Len(segs) - 1) : segs[i].name \in DOMAIN fs

\* steps 2-4: read the sealed segments, write the merge file, close it; when
\* a sealed segment cannot be opened the merge file is removed and the
\* compaction returns the error
CompactionMerge(g) ==
    /\ gor[g].pc = "merge"
    /\ IF SealedReadable(files, segments)
       THEN /\ LET merged == MergedKeys(EmptyIndex, files, Sealed(segments), 1)
               IN  \E o \in Orders(DOMAIN merged) :
                      files' = WriteFile(files, gor[g].mergePath,
                                         MergedData(files, Sealed(segments), o))
            /\ gor' = [gor EXCEPT ![g].pc = "remove", ![g].i = 1]
       ELSE /\ files' = RemoveFile(files, gor[g].mergePath)
            /\ gor' = [gor EXCEPT ![g].pc = "unlock", ![g].fault = "merge"]
    /\ UNCHANGED <<segments, index, maxSegmentSize, mu, isCompacting, wg,
                   thr, spawned, phase, model, pre, expect, awaited,
                   putFailed, lastGet, puts, opens, crashes,
                   faults,
                   lastPut,
                   healthyServers, lastSelect, series>>

\* step 5, one sealed segment: close its handle, remove its file
CompactionRemove(g) ==
    /\ gor[g].pc = "remove"
    /\ LET i == gor[g].i
       IN  /\ segments' = [segments EXCEPT ![i].open = FALSE]
           /\ files' = RemoveFile(files, segments[i].name)
           /\ gor' = IF i < Len(segments) - 1
                     THEN [gor EXCEPT ![g].i = i + 1]
                     ELSE [gor EXCEPT ![g].pc = "rename_merge"]
    /\ UNCHANGED <<index, maxSegmentSize, mu, isCompacting, wg, thr, spawned,
                   phase, model, pre, expect, awaited, putFailed, lastGet,
                   puts, opens, crashes,
                   faults,
                   lastPut,
                   healthyServers, lastSelect, series>>

\* a variant of CompactionRenameMerge: the merged file keeps the number of
\* the merge file
CompactionRenameKeepsNumber(g) ==
    /\ gor[g].pc = "rename_merge"
    /\ files' = RenameFile(files, gor[g].mergePath,
                           SegName(extractNum(gor[g].mergePath)))
    /\ gor' = [gor EXCEPT ![g].pc = "rename_active"]
    /\ UNCHANGED <<segments, index, maxSegmentSize, mu, isCompacting, wg,
                   thr, spawned, phase, model, pre, expect, awaited,
                   putFailed, lastGet, puts, opens, crashes,
                   faults,
                   lastPut,
                   healthyServers, lastSelect, series>>

\* step 6: rename the merge file to segment 1
CompactionRenameMerge(g) ==
    /\ gor[g].pc = "rename_merge"
    /\ files' = RenameFile(files, gor[g].mergePath, SegName(1))
    /\ gor' = [gor EXCEPT ![g].pc = "rename_active"]
    /\ UNCHANGED <<segments, index, maxSegmentSize, mu, isCompacting, wg,
                   thr, spawned, phase, model, pre, expect, awaited,
                   putFailed, lastGet, puts, opens, crashes,
                   faults,
                   lastPut,
                   healthyServers, lastSelect, series>>

\* a variant of CompactionRenameActive: the active segment keeps its name
CompactionKeepsActiveName(g) ==
    /\ gor[g].pc = "rename_active"
    /\ segments' = [segments EXCEPT ![Len(segments)].open = FALSE]
    /\ gor' = [gor EXCEPT ![g].pc = "rebuild"]
    /\ UNCHANGED <<files, index, maxSegmentSize, mu, isCompacting, wg, thr,
                   spawned, phase, model, pre, expect, awaited, putFailed,
                   lastGet, lastPut, puts, opens, crashes, faults,
                   healthyServers, lastSelect, series>>

\* step 7, first part: close the active segment, rename it to segment 2
\* unless that is its name
CompactionRenameActive(g) ==
    /\ gor[g].pc = "rename_active"
    /\ LET activeSeg == getActiveSegment(segments)
       IN  /\ segments' = [segments EXCEPT ![Len(segments)].open = FALSE]
           /\ files' = IF activeSeg.name # SegName(2)
                       THEN RenameFile(files, activeSeg.name, SegName(2))
                       ELSE files
    /\ gor' = [gor EXCEPT ![g].pc = "rebuild"]
    /\ UNCHANGED <<index, maxSegmentSize, mu, isCompacting, wg, thr, spawned,
                   phase, model, pre, expect, awaited, putFailed, lastGet,
                   puts, opens, crashes,
                   faults,
                   lastPut,
                   healthyServers, lastSelect, series>>

\* step 7, second part: clear segments and index, scan the directory, open
\* and recover every segment file
CompactionRebuild(g) ==
    /\ gor[g].pc = "rebuild"
    /\ LET r == OpenDb(files)
       IN  /\ files' = r.files
           /\ segments' = r.segments
           /\ index' = r.index
    /\ gor' = [gor EXCEPT ![g].pc = "unlock"]
    /\ UNCHANGED <<maxSegmentSize, mu, isCompacting, wg, thr, spawned, phase,
                   model, pre, expect, awaited, putFailed, lastGet, puts,
                   opens, crashes,
                   faults,
                   lastPut,
                   healthyServers, lastSelect, series>>

\* a variant of CompactionUnlock: performCompaction returns without
\* releasing db.mu
CompactionUnlockKeepsLock(g) ==
    /\ gor[g].pc = "unlock"
    /\ mu' = mu
    /\ gor' = [gor EXCEPT ![g].pc = "reset"]
    /\ pre' = [pre EXCEPT !.files = NoPre.files, !.segments = NoPre.segments,
                          !.index = NoPre.index,
                          !.done = (gor[g].fault = "none")]
    /\ UNCHANGED <<files, segments, index, maxSegmentSize, isCompacting, wg,
                   thr, spawned, phase, model, expect, awaited,
                   putFailed, lastGet, puts, opens, crashes,
                   faults,
                   lastPut,
                   healthyServers, lastSelect, series>>

\* performCompaction returns: the deferred db.mu.Unlock()
CompactionUnlock(g) ==
    /\ gor[g].pc = "unlock"
    /\ mu' = Free
    /\ gor' = [gor EXCEPT ![g].pc = "reset"]
    /\ pre' = [pre EXCEPT !.files = NoPre.files, !.segments = NoPre.segments,
                          !.index = NoPre.index,
                          !.done = (gor[g].fault = "none")]
    /\ UNCHANGED <<files, segments, index, maxSegmentSize, isCompacting, wg,
                   thr, spawned, phase, model, expect, awaited,
                   putFailed, lastGet, puts, opens, crashes,
                   faults,
                   lastPut,
                   healthyServers, lastSelect, series>>

\* a variant of CompactionReset: the flag is reset after a compaction that
\* returned no error only
CompactionResetOnSuccess(g) ==
    /\ gor[g].pc = "reset"
    /\ isCompacting' = (isCompacting /\ gor[g].fault # "none")
    /\ gor' = [gor EXCEPT ![g].pc = "wgdone"]
    /\ UNCHANGED <<files, segments, index, maxSegmentSize, mu, wg, thr,
                   spawned, phase, model, pre, expect, awaited, putFailed,
                   lastGet, puts, opens, crashes,
                   faults,
                   lastPut,
                   healthyServers, lastSelect, series>>

\* the task's deferred functions, last registered first: reset the flag ...
CompactionReset(g) ==
    /\ gor[g].pc = "reset"
    /\ isCompacting' = FALSE
    /\ gor' = [gor EXCEPT ![g].pc = "wgdone"]
    /\ UNCHANGED <<files, segments, index, maxSegmentSize, mu, wg, thr,
                   spawned, phase, model, pre, expect, awaited, putFailed,
                   lastGet, puts, opens, crashes,
                   faults,
                   lastPut,
                   healthyServers, lastSelect, series>>

\* a variant of CompactionDone: compactionWg.Done() may run before the flag
\* is reset
CompactionDoneFirst(g) ==
    /\ \/ /\ gor[g].pc = "reset"
          /\ wg' = wg - 1
          /\ gor' = [gor EXCEPT ![g].pc = "wgdone"]
          /\ UNCHANGED isCompacting
       \/ /\ gor[g].pc = "wgdone"
          /\ isCompacting' = FALSE
          /\ gor' = [gor EXCEPT ![g].pc = "finished"]
          /\ UNCHANGED wg
    /\ UNCHANGED <<files, segments, index, maxSegmentSize, mu,
                   thr, spawned, phase, model, pre, expect, awaited,
                   putFailed, lastGet, puts, opens, crashes,
                   faults,
                   lastPut,
                   healthyServers, lastSelect, series>>

\* ... then compactionWg.Done()
CompactionDone(g) ==
    /\ gor[g].pc = "wgdone"
    /\ wg' = wg - 1
    /\ gor' = [gor EXCEPT ![g].pc = "finished"]
    /\ UNCHANGED <<files, segments, index, maxSegmentSize, mu, isCompacting,
                   thr, spawned, phase, model, pre, expect, awaited,
                   putFailed, lastGet, puts, opens, crashes,
                   faults,
                   lastPut,
                   healthyServers, lastSelect, series>>

\* ------------------------------------------- failing file-system calls
\* The steps of performCompaction when one of its file-system calls returns
\* an error. gor[g].fault names the call that failed.
FaultRest ==
    UNCHANGED <<maxSegmentSize, isCompacting, wg, thr, spawned, phase, model,
                expect, awaited, putFailed, lastGet, puts, opens, crashes,
                lastPut,
                healthyServers, lastSelect, series>>

\* os.Create of the merge file fails: performCompaction returns the error
CompactionCreateFails(g) ==
    /\ gor[g].pc = "start"
    /\ mu = Free
    /\ faults < MaxFaults
    /\ Len(segments) >= 2
    /\ faults' = faults + 1
    /\ mu' = TaskLock(g)
    /\ pre' = Snapshot
    /\ gor' = [gor EXCEPT ![g].pc = "unlock", ![g].fault = "create"]
    /\ UNCHANGED <<files, segments, index>>
    /\ FaultRest

\* processSegmentForCompaction, a Write of writeMergedData or
\* mergeFile.Close() returns an error: the merge file is closed and removed,
\* performCompaction returns the error
CompactionMergeFails(g) ==
    /\ gor[g].pc = "merge"
    /\ faults < MaxFaults
    /\ faults' = faults + 1
    /\ files' = RemoveFile(files, gor[g].mergePath)
    /\ gor' = [gor EXCEPT ![g].pc = "unlock", ![g].fault = "merge"]
    /\ UNCHANGED <<segments, index, mu, pre>>
    /\ FaultRest

\* the strict prefixes of a sequence of records
Prefixes(recs) == {SubSeq(recs, 1, n) : n \in 0..(Len(recs) - 1)}

\* the deferred writer.Flush() of writeMergedData returns an error: the
\* records are in the bufio.Writer until then, so every Write returned nil;
\* the result of Flush is dropped and writeMergedData returns nil. Part of
\* the data is in the file and performCompaction goes on to step 4.
CompactionFlushFails(g) ==
    /\ gor[g].pc = "merge"
    /\ faults < MaxFaults
    /\ SealedReadable(files, segments)
    /\ faults' = faults + 1
    /\ LET merged == MergedKeys(EmptyIndex, files, Sealed(segments), 1)
       IN  \E o \in Orders(DOMAIN merged) :
              \E part \in Prefixes(MergedData(files, Sealed(segments), o)) :
                  files' = WriteFile(files, gor[g].mergePath, part)
    /\ gor' = [gor EXCEPT ![g].pc = "remove", ![g].i = 1, ![g].fault = "flush"]
    /\ UNCHANGED <<segments, index, mu, pre>>
    /\ FaultRest

\* os.Rename of the merge file fails: performCompaction returns the error;
\* the sealed files are removed and their handles closed already
CompactionRenameMergeFails(g) ==
    /\ gor[g].pc = "rename_merge"
    /\ faults < MaxFaults
    /\ faults' = faults + 1
    /\ gor' = [gor EXCEPT ![g].pc = "unlock", ![g].fault = "rename_merge"]
    /\ UNCHANGED <<files, segments, index, mu, pre>>
    /\ FaultRest

\* os.Rename of the active segment fails: its handle is closed already,
\* performCompaction returns the error
CompactionRenameActiveFails(g) ==
    /\ gor[g].pc = "rename_active"
    /\ faults < MaxFaults
    /\ getActiveSegment(segments).name # SegName(2)
    /\ faults' = faults + 1
    /\ segments' = [segments EXCEPT ![Len(segments)].open = FALSE]
    /\ gor' = [gor EXCEPT ![g].pc = "unlock", ![g].fault = "rename_active"]
    /\ UNCHANGED <<files, index, mu, pre>>
    /\ FaultRest

\* the rebuild up to its j-th segment file, whose openSegment fails
OpenFirst(fs, j) ==
    LET names == ScanDir(fs)
        segs == [i \in 1..(j - 1) |-> openSegment(fs, names[i])]
    IN  [segments |-> segs, index |-> RecoverAll(EmptyIndex, segs, fs, 1)]

\* openSegment fails in the rebuild: segments and index were cleared and
\* hold what the loop added before; performCompaction returns the error
CompactionRebuildFails(g) ==
    /\ gor[g].pc = "rebuild"
    /\ faults < MaxFaults
    /\ faults' = faults + 1
    /\ \E j \in 1..Len(ScanDir(files)) :
          /\ segments' = OpenFirst(files, j).segments
          /\ index' = OpenFirst(files, j).index
    /\ gor' = [gor EXCEPT ![g].pc = "unlock", ![g].fault = "reopen"]
    /\ UNCHANGED <<files, mu, pre>>
    /\ FaultRest

\* step 5, one sealed segment, os.Remove fails: the handle is closed, the
\* error is logged, the file stays and the loop goes on
CompactionRemoveFails(g) ==
    /\ gor[g].pc = "remove"
    /\ faults < MaxFaults
    /\ faults' = faults + 1
    /\ LET i == gor[g].i
       IN  /\ segments' = [segments EXCEPT ![i].open = FALSE]
           /\ gor' = IF i < Len(segments) - 1
                     THEN [gor EXCEPT ![g].i = i + 1]
                     ELSE [gor EXCEPT ![g].pc = "rename_merge"]
    /\ UNCHANGED <<files, index, mu, pre>>
    /\ FaultRest

\* Put on an empty segment list: getActiveSegment indexes db.segments[-1],
\* the panic ends the process
PutPanics(t, k, v) ==
    /\ phase = "open"
    /\ thr[t].pc = "idle"
    /\ puts < MaxPuts
    /\ mu = Free
    /\ Len(segments) = 0
    /\ puts' = puts + 1
    /\ putFailed' = TRUE
    /\ phase' = "down"
    /\ awaited' = {}
    /\ expect' = [kind |-> "stop", map |-> GetMap]
    /\ index' = EmptyIndex
    /\ isCompacting' = FALSE
    /\ wg' = 0
    /\ thr' = [u \in Threads |-> Idle]
    /\ gor' = [g \in Goroutines |-> NoTask]
    /\ lastPut' = "panic"
    /\ UNCHANGED <<files, segments, maxSegmentSize, mu, spawned, model, pre,
                   lastGet, opens, crashes, faults,
                   healthyServers, lastSelect, series>>

\* a variant of PutFailing: the index entry is set before the Write
PutFailingIndexFirst(fs, segs, idx, max, key, value) ==
    LET active == getActiveSegment(segs)
        roll == active.offset >= max
        fs1 == IF roll THEN CreatedFiles(fs, active.num + 1) ELSE fs
        segs1 == IF roll THEN Append(segs, createNewSegment(fs, active.num + 1))
                 ELSE segs
        a == getActiveSegment(segs1)
    IN  [files |-> fs1, segments |-> segs1,
         index |-> [x \in DOMAIN idx \cup {key} |->
                       IF x = key
                       THEN [segmentNum |-> a.num, offset |-> a.offset]
                       ELSE idx[x]],
         err |-> TRUE]

\* Put's effect when activeSeg.file.Write returns an error with nothing
\* written: the rollover, if one was due, has been done; Put returns before
\* it assigns db.index[key] and activeSeg.offset
PutFailing(fs, segs, idx, max, key, value) ==
    LET active == getActiveSegment(segs)
        roll == active.offset >= max
        fs1 == IF roll THEN CreatedFiles(fs, active.num + 1) ELSE fs
        segs1 == IF roll THEN Append(segs, createNewSegment(fs, active.num + 1))
                 ELSE segs
    IN  [files |-> fs1, segments |-> segs1, index |-> idx, err |-> TRUE]

\* Put(k, v) when the Write to the open active segment fails
PutWriteFails(t, k, v) ==
    /\ phase = "open"
    /\ thr[t].pc = "idle"
    /\ puts < MaxPuts
    /\ faults < MaxFaults
    /\ mu = Free
    /\ Len(segments) > 0
    /\ puts' = puts + 1
    /\ faults' = faults + 1
    /\ LET r == PutFailing(files, segments, index, maxSegmentSize, k, v)
       IN  /\ files' = r.files
           /\ segments' = r.segments
           /\ index' = r.index
    /\ putFailed' = TRUE
    /\ lastPut' = "err"
    /\ pre' = [pre EXCEPT !.done = FALSE]
    /\ UNCHANGED <<maxSegmentSize, mu, isCompacting, wg, thr, gor, spawned,
                   phase, model, expect, awaited, lastGet, opens, crashes,
                   healthyServers, lastSelect, series>>

\* ------------------------------------------------------------------- Close
\* Close is called while no Put, Get or Size is in progress (operations on a
\* closing store are the caller's error); a Compact call may be in progress
CloseCall(t) ==
    /\ phase = "open"
    /\ opens < MaxOpens
    /\ thr[t].pc = "idle"
    /\ \A u \in Threads : thr[u].pc \in {"idle", "compact_add"}
    /\ thr' = [thr EXCEPT ![t].pc = "close_wait"]
    /\ phase' = "closing"
    /\ awaited' = {g \in Goroutines : gor[g].pc \notin {"none", "finished"}}
    /\ UNCHANGED <<files, segments, index, maxSegmentSize, mu, isCompacting,
                   wg, gor, spawned, model, pre, expect, putFailed, lastGet,
                   puts, opens, crashes,
                   faults,
                   lastPut,
                   healthyServers, lastSelect, series>>

\* a variant of WaitReturns: Close does not wait
WaitReturnsAtOnce == TRUE

\* compactionWg.Wait() returns when the counter is zero
WaitReturns == wg = 0

CloseWait(t) ==
    /\ thr[t].pc = "close_wait"
    /\ WaitReturns
    /\ thr' = [thr EXCEPT ![t].pc = "close_lock"]
    /\ UNCHANGED <<files, segments, index, maxSegmentSize, mu, isCompacting,
                   wg, gor, spawned, phase, model, pre, expect, awaited,
                   putFailed, lastGet, puts, opens, crashes,
                   faults,
                   lastPut,
                   healthyServers, lastSelect, series>>

ClosedHandles(segs) == [i \in 1..Len(segs) |-> [segs[i] EXCEPT !.open = FALSE]]

\* Close from db.mu.Lock(): close the handle of every segment of the list
CloseBody(t) ==
    /\ thr[t].pc = "close_lock"
    /\ mu = Free
    /\ segments' = ClosedHandles(segments)
    /\ thr' = [thr EXCEPT ![t] = Idle]
    /\ phase' = "closed"
    /\ expect' = [kind |-> "close", map |-> GetMap]
    /\ awaited' = awaited
    /\ UNCHANGED <<files, index, maxSegmentSize, mu, isCompacting, wg, gor,
                   spawned, model, pre, putFailed, lastGet, puts, opens,
                   crashes,
                   faults,
                   lastPut,
                   healthyServers, lastSelect, series>>

TasksOver == \A g \in Goroutines : gor[g].pc \in {"none", "finished"}

\* Open(dir, max) on the directory as the closed or stopped process left it
OpenDir(max) ==
    /\ \/ phase = "closed" /\ TasksOver /\ \A u \in Threads : thr[u].pc = "idle"
       \/ phase = "down"
       \/ phase = "failed"
    /\ LET r == OpenDb(files)
       IN  /\ files' = r.files
           /\ segments' = r.segments
           /\ index' = r.index
    /\ maxSegmentSize' = max
    /\ mu' = Free
    /\ isCompacting' = FALSE
    /\ wg' = 0
    /\ thr' = [u \in Threads |-> Idle]
    /\ gor' = [g \in Goroutines |-> NoTask]
    /\ phase' = "opened"
    /\ opens' = opens + 1
    /\ awaited' = {}
    /\ UNCHANGED <<spawned, model, pre, expect, putFailed, lastGet, puts,
                   crashes,
                   faults,
                   lastPut,
                   healthyServers, lastSelect, series>>

\* the calls of Open that may fail once the directory is listed
OpenFaults == {"open", "recover"}

\* a variant of OpenFailing: Open returns the error without db.Close()
OpenFailingLeaks(fs, j, kind) ==
    CASE kind = "open" -> [files |-> fs, segments |-> OpenFirst(fs, j).segments]
      [] kind = "recover" -> [files |-> OpenDb(fs).files,
                              segments |-> OpenDb(fs).segments]

\* The directory and the handles of the abandoned Db when Open returns an
\* error: openSegment fails on the j-th segment file ("open": db.Close()
\* closes the j - 1 handles in db.segments) or recoverSegment fails on the
\* j-th segment ("recover": db.Close() closes every handle)
OpenFailing(fs, j, kind) ==
    CASE kind = "open" ->
             [files |-> fs,
              segments |-> ClosedHandles(OpenFirst(fs, j).segments)]
      [] kind = "recover" ->
             [files |-> OpenDb(fs).files,
              segments |-> ClosedHandles(OpenDb(fs).segments)]

\* Open(dir, max) returns an error. The Db it built is dropped; segments
\* keeps the handles it had opened.
OpenDirFails(max) ==
    /\ \/ phase = "closed" /\ TasksOver /\ \A u \in Threads : thr[u].pc = "idle"
       \/ phase = "down"
       \/ phase = "failed"
    /\ faults < MaxFaults
    /\ faults' = faults + 1
    /\ \E kind \in OpenFaults, j \in 1..Len(OpenDb(files).segments) :
          /\ kind = "open" => j <= Len(ScanDir(files))
          /\ files' = OpenFailing(files, j, kind).files
          /\ segments' = OpenFailing(files, j, kind).segments
    /\ index' = EmptyIndex
    /\ maxSegmentSize' = max
    /\ mu' = Free
    /\ isCompacting' = FALSE
    /\ wg' = 0
    /\ thr' = [u \in Threads |-> Idle]
    /\ gor' = [g \in Goroutines |-> NoTask]
    /\ phase' = "failed"
    /\ awaited' = {}
    /\ UNCHANGED <<spawned, model, pre, expect, putFailed, lastGet, lastPut,
                   puts, opens, crashes,
                   healthyServers, lastSelect, series>>

\* Open has returned the store to its caller
OpenReturn ==
    /\ phase = "opened"
    /\ phase' = "open"
    /\ UNCHANGED <<files, segments, index, maxSegmentSize, mu, isCompacting,
                   wg, thr, gor, spawned, model, pre, expect, awaited,
                   putFailed, lastGet, puts, opens, crashes,
                   faults,
                   lastPut,
                   healthyServers, lastSelect, series>>

\* ------------------------------------------------------------ process stop
\* the task that is inside performCompaction's locked part, if any
Compacting == {g \in Goroutines : mu = HeldBy("task", g)}

\* The process stops: memory is lost, the directory stays
Crash ==
    /\ phase = "open"
    /\ crashes < MaxCrashes
    /\ crashes' = crashes + 1
    /\ phase' = "down"
    /\ awaited' = {}
    /\ expect' = IF Compacting # {}
                 THEN [kind |-> gor[CHOOSE g \in Compacting : TRUE].pc,
                       map |-> pre.map]
                 ELSE [kind |-> "stop", map |-> GetMap]
    /\ segments' = <<>>
    /\ index' = EmptyIndex
    /\ mu' = Free
    /\ isCompacting' = FALSE
    /\ wg' = 0
    /\ thr' = [u \in Threads |-> Idle]
    /\ gor' = [g \in Goroutines |-> NoTask]
    /\ UNCHANGED <<files, maxSegmentSize, spawned, model, pre, putFailed,
                   lastGet, puts, opens,
                   faults,
                   lastPut,
                   healthyServers, lastSelect, series>>

\* ----------------------------------------------------------- specification
NoDir == [n \in {} |-> <<>>]

\* Open on an empty directory has returned
Opened ==
    /\ files = OpenDb(NoDir).files
    /\ segments = OpenDb(NoDir).segments
    /\ index = OpenDb(NoDir).index
    /\ mu = Free
    /\ isCompacting = FALSE
    /\ wg = 0
    /\ thr = [t \in Threads |-> Idle]
    /\ gor = [g \in Goroutines |-> NoTask]
    /\ spawned = 0
    /\ phase = "open"
    /\ model = [k \in AllKeys |-> NoValue]
    /\ pre = NoPre
    /\ expect = [kind |-> "none", map |-> [k \in Keys |-> NotFound]]
    /\ awaited = {}
    /\ putFailed = FALSE
    /\ lastGet = "none"
    /\ lastPut = "none"
    /\ puts = 0
    /\ opens = 0
    /\ crashes = 0
    /\ faults = 0
    /\ healthyServers = NoPolls
    /\ lastSelect = NoSelect
    /\ series = NoRequests

\* Open(dir, max) on an empty directory has returned
Init ==
    /\ maxSegmentSize \in MaxSegmentSizes
    /\ Opened

Next ==
    \/ \E t \in Threads, k \in Keys, v \in Values : Put(t, k, v)
    \/ \E t \in Threads, k \in Keys : GetLookup(t, k)
    \/ \E t \in Threads : GetRead(t)
    \/ \E t \in Threads : CompactEnter(t)
    \/ \E t \in Threads : CompactSpawn(t)
    \/ \E g \in Goroutines : CompactionStart(g)
    \/ \E g \in Goroutines : CompactionMerge(g)
    \/ \E g \in Goroutines : CompactionRemove(g)
    \/ \E g \in Goroutines : CompactionRenameMerge(g)
    \/ \E g \in Goroutines : CompactionRenameActive(g)
    \/ \E g \in Goroutines : CompactionRebuild(g)
    \/ \E g \in Goroutines : CompactionUnlock(g)
    \/ \E g \in Goroutines : CompactionReset(g)
    \/ \E g \in Goroutines : CompactionDone(g)
    \/ \E t \in Threads : CloseCall(t)
    \/ \E t \in Threads : CloseWait(t)
    \/ \E t \in Threads : CloseBody(t)
    \/ \E max \in MaxSegmentSizes : OpenDir(max)
    \/ OpenReturn

Spec == Init /\ [][Next]_vars

\* the same program in an environment where the process may stop at any step
NextCrash == Next \/ Crash

SpecCrash == Init /\ [][NextCrash]_vars

\* Puts, Gets and compactions on the open store
NextOpen ==
    \/ \E t \in Threads, k \in Keys, v \in Values : Put(t, k, v)
    \/ \E t \in Threads, k \in Keys : GetLookup(t, k)
    \/ \E t \in Threads : GetRead(t)
    \/ \E t \in Threads : CompactEnter(t)
    \/ \E t \in Threads : CompactSpawn(t)
    \/ \E g \in Goroutines : CompactionStart(g)
    \/ \E g \in Goroutines : CompactionMerge(g)
    \/ \E g \in Goroutines : CompactionRemove(g)
    \/ \E g \in Goroutines : CompactionRenameMerge(g)
    \/ \E g \in Goroutines : CompactionRenameActive(g)
    \/ \E g \in Goroutines : CompactionRebuild(g)
    \/ \E g \in Goroutines : CompactionUnlock(g)
    \/ \E g \in Goroutines : CompactionReset(g)
    \/ \E g \in Goroutines : CompactionDone(g)

\* the open store in an environment where file-system calls of
\* performCompaction may fail
NextFaults ==
    \/ NextOpen
    \/ \E g \in Goroutines : CompactionCreateFails(g)
    \/ \E g \in Goroutines : CompactionMergeFails(g)
    \/ \E g \in Goroutines : CompactionFlushFails(g)
    \/ \E g \in Goroutines : CompactionRenameMergeFails(g)
    \/ \E g \in Goroutines : CompactionRenameActiveFails(g)
    \/ \E g \in Goroutines : CompactionRebuildFails(g)
    \/ \E t \in Threads, k \in Keys, v \in Values : PutPanics(t, k, v)
    \/ \E t \in Threads, k \in Keys, v \in Values : PutWriteFails(t, k, v)

SpecFaults == Init /\ [][NextFaults]_vars

\* the steps of the compaction task g after it has taken db.mu, failing
\* ones included, but for the directory rescan
TaskBody(g) ==
    \/ CompactionMerge(g)
    \/ CompactionRemove(g)
    \/ CompactionRenameMerge(g)
    \/ CompactionRenameActive(g)
    \/ CompactionUnlock(g)
    \/ CompactionReset(g)
    \/ CompactionDone(g)
    \/ CompactionMergeFails(g)
    \/ CompactionFlushFails(g)
    \/ CompactionRenameMergeFails(g)
    \/ CompactionRenameActiveFails(g)
    \/ CompactionRebuildFails(g)

\* the task's db.mu.Lock()
TaskAcquire(g) == CompactionStart(g) \/ CompactionCreateFails(g)

\* the values written in the runs checked for liveness
LiveValues == {"yy"}

\* the open store and the failing file-system calls while the process runs
NextLive ==
    \/ \E t \in Threads, k \in Keys, v \in LiveValues : Put(t, k, v)
    \/ \E t \in Threads, k \in Keys : GetLookup(t, k)
    \/ \E t \in Threads : GetRead(t)
    \/ \E t \in Threads : CompactEnter(t)
    \/ \E t \in Threads : CompactSpawn(t)
    \/ \E g \in Goroutines : TaskAcquire(g)
    \/ \E g \in Goroutines : TaskBody(g)
    \/ \E g \in Goroutines : CompactionRebuild(g)

\* The Go scheduler runs every runnable goroutine: a thread inside Get or
\* Compact and a task in its body take their next step (weak fairness).
\* sync.Mutex hands the lock to a goroutine that has waited for it (its
\* starvation mode), so a task waiting for db.mu gets it although Puts and
\* Gets keep taking it (strong fairness). The directory rescan is enabled
\* whenever the task is at it and moves the task on, so its weak fairness
\* is that the task is not at it for ever.
Fair ==
    /\ \A t \in Threads : WF_vars(GetRead(t)) /\ WF_vars(CompactSpawn(t))
    /\ \A g \in Goroutines : WF_vars(TaskBody(g)) /\ SF_vars(TaskAcquire(g))
    /\ \A g \in Goroutines : []<>(gor[g].pc # "rebuild")

SpecLive == Init /\ [][NextLive]_vars /\ Fair

\* Puts and Gets, no compaction, on stores opened with several values of
\* maxSegmentSize
RolloverSizes == {8, 15, 30}

InitRollover ==
    /\ maxSegmentSize \in RolloverSizes
    /\ Opened

NextRollover ==
    \/ \E t \in Threads, k \in Keys, v \in Values : Put(t, k, v)
    \/ \E t \in Threads, k \in Keys : GetLookup(t, k)
    \/ \E t \in Threads : GetRead(t)

SpecRollover == InitRollover /\ [][NextRollover]_vars

\* Puts and Gets, Close and Open, in an environment where a call of Open
\* may fail
NextReopen ==
    \/ \E t \in Threads, k \in Keys, v \in Values : Put(t, k, v)
    \/ \E t \in Threads, k \in Keys : GetLookup(t, k)
    \/ \E t \in Threads : GetRead(t)
    \/ \E t \in Threads : CloseCall(t)
    \/ \E t \in Threads : CloseWait(t)
    \/ \E t \in Threads : CloseBody(t)
    \/ \E max \in MaxSegmentSizes : OpenDir(max)
    \/ \E max \in MaxSegmentSizes : OpenDirFails(max)
    \/ OpenReturn

SpecReopen == Init /\ [][NextReopen]_vars

\* ------------------------------------------------------ concurrent workers
\* The workers of the store's concurrency test: each worker Puts keys of its
\* own, every key once with the value that goes with it, and Gets the keys
\* of the other workers meanwhile.
KeyOrder == <<"a", "b", "c", "d">>

Owner(k) == LET i == CHOOSE j \in 1..Len(KeyOrder) : KeyOrder[j] = k
            IN  ((i - 1) % NumThreads) + 1

ValueFor(k) == CASE k = "a" -> "p" [] k = "b" -> "q" [] k = "c" -> "r"
                 [] OTHER -> "s"

WorkerPut(t, k) ==
    /\ Owner(k) = t
    /\ model[k] = NoValue
    /\ Put(t, k, ValueFor(k))

WorkerGet(t, k) ==
    /\ Owner(k) # t
    /\ GetLookup(t, k)

NextWorkers ==
    \/ \E t \in Threads, k \in WorkerKeys : WorkerPut(t, k)
    \/ \E t \in Threads, k \in WorkerKeys : WorkerGet(t, k)
    \/ \E t \in Threads : GetRead(t)

SpecWorkers == Init /\ [][NextWorkers]_vars

\* the directories a former run of the store has left: one segment file
\* that holds one record
StoredDirs == {WriteFile(NoDir, SegName(1), <<e>>) :
                  e \in {[key |-> k, value |-> v] : k \in Keys, v \in Values}}

\* Open(dir, max) has returned on a directory a former run has left
InitStored ==
    /\ maxSegmentSize \in MaxSegmentSizes
    /\ \E dir \in StoredDirs :
          /\ files = OpenDb(dir).files
          /\ segments = OpenDb(dir).segments
          /\ index = OpenDb(dir).index
          /\ model = [k \in AllKeys |->
                         IF k = dir[SegName(1)][1].key
                         THEN dir[SegName(1)][1].value ELSE NoValue]
    /\ mu = Free
    /\ isCompacting = FALSE
    /\ wg = 0
    /\ thr = [t \in Threads |-> Idle]
    /\ gor = [g \in Goroutines |-> NoTask]
    /\ spawned = 0
    /\ phase = "open"
    /\ pre = NoPre
    /\ expect = [kind |-> "none", map |-> [k \in Keys |-> NotFound]]
    /\ awaited = {}
    /\ putFailed = FALSE
    /\ lastGet = "none"
    /\ lastPut = "none"
    /\ puts = 0
    /\ opens = 0
    /\ crashes = 0
    /\ faults = 0
    /\ healthyServers = NoPolls
    /\ lastSelect = NoSelect
    /\ series = NoRequests

\* the open store in an environment where os.Remove of a sealed segment
\* may fail during a compaction
NextRemoveFails ==
    \/ NextOpen
    \/ \E g \in Goroutines : CompactionRemoveFails(g)

SpecRemoveFails == InitStored /\ [][NextRemoveFails]_vars

\* the steps of the compaction task g after it has taken db.mu when every
\* file-system call succeeds, but for the directory rescan
TaskSteps(g) ==
    \/ CompactionMerge(g)
    \/ CompactionRemove(g)
    \/ CompactionRenameMerge(g)
    \/ CompactionRenameActive(g)
    \/ CompactionUnlock(g)
    \/ CompactionReset(g)
    \/ CompactionDone(g)

\* Puts, Gets, compactions and Close while the process runs, every
\* file-system call returning without an error
NextClose ==
    \/ \E t \in Threads, k \in Keys, v \in LiveValues : Put(t, k, v)
    \/ \E t \in Threads, k \in Keys : GetLookup(t, k)
    \/ \E t \in Threads : GetRead(t)
    \/ \E t \in Threads : CompactEnter(t)
    \/ \E t \in Threads : CompactSpawn(t)
    \/ \E g \in Goroutines : CompactionStart(g)
    \/ \E g \in Goroutines : TaskSteps(g)
    \/ \E g \in Goroutines : CompactionRebuild(g)
    \/ \E t \in Threads : CloseCall(t)
    \/ \E t \in Threads : CloseWait(t)
    \/ \E t \in Threads : CloseBody(t)

\* The scheduler runs every runnable goroutine: a thread inside Get,
\* Compact or Close takes its next step when it can, and so does a task; a
\* goroutine that waits for db.mu gets it (sync.Mutex's starvation mode).
FairClose ==
    /\ \A t \in Threads :
          /\ WF_vars(GetRead(t))
          /\ WF_vars(CompactSpawn(t))
          /\ WF_vars(CloseWait(t))
          /\ SF_vars(CloseBody(t))
    /\ \A g \in Goroutines : WF_vars(TaskSteps(g)) /\ SF_vars(CompactionStart(g))
    /\ \A g \in Goroutines : []<>(gor[g].pc # "rebuild")

SpecClose == Init /\ [][NextClose]_vars /\ FairClose

\* the router: polls and requests
SpecRouter == Init /\ [][NextRouter]_vars

\* the balancer: polls and the requests of one series
SpecBalancer == Init /\ [][NextBalancer]_vars

\* ------------------------------------------------------------------ claims
Quiet == phase = "open" /\ mu = Free

Unlocking == {g \in Goroutines : gor[g].pc = "unlock"}

\* C1: on an open store, whenever no operation holds the lock, Get(k) of every
\* key that was Put returns the value of the latest Put of k, also after
\* segment rollover.
ReadYourWrites ==
    Quiet => \A k \in Keys : model[k] # NoValue => Get(k) = Found(model[k])

\* a key was overwritten across a rollover and reads back its latest value
ReadYourWritesSeen ==
    /\ Quiet
    /\ Len(segments) >= 3
    /\ pre = NoPre
    /\ \E k \in Keys :
          /\ Cardinality({i \in 1..Len(segments) :
                \E j \in 1..Len(files[segments[i].name]) :
                    files[segments[i].name][j].key = k}) >= 2
          /\ Get(k) = Found(model[k])

\* C2: when performCompaction has rebuilt the store and is about to release
\* the lock, Get of every key returns what it returned when the compaction
\* took the lock.
CompactionKeepsMapping ==
    Unlocking # {} => GetMap = pre.map

\* a compaction of three segments with an overwritten key has completed
CompactionKeepsMappingSeen ==
    /\ Unlocking # {}
    /\ pre.nsegs >= 3
    /\ pre.over
    /\ \E k \in Keys : Get(k).st = "ok"
    /\ \E k \in Keys : Get(k).st = "notfound"

\* the steps of performCompaction at which the process may stop
CompactionSteps ==
    {"merge", "remove", "rename_merge", "rename_active", "rebuild", "unlock"}

\* C3: after the process stopped at any step of performCompaction, Open of
\* the directory yields for every key the value it had when the compaction
\* began.
CrashDuringCompactionKeepsMapping ==
    (phase = "opened" /\ expect.kind \in CompactionSteps) => GetMap = expect.map

\* C4: a store opened on the directory of a closed store returns for every
\* key what Get returned when Close closed the segments.
Persistence ==
    (phase = "opened" /\ expect.kind = "close") => GetMap = expect.map

\* a store with several segments, compacted before Close, has been reopened
PersistenceSeen ==
    /\ phase = "opened"
    /\ expect.kind = "close"
    /\ pre # NoPre
    /\ Len(segments) >= 2
    /\ \E k \in Keys : Get(k).st = "ok"

\* C5: under every interleaving of Puts, Gets and background compactions, a
\* Get never fails and never returns anything but the value of the latest
\* Put of its key that completed before the Get read the store.
Linearizable ==
    lastGet \in {"none", "value", "notfound"}

\* a Get has returned a value while a compaction task waits for the lock
\* after an earlier compaction has completed
LinearizableSeen ==
    /\ lastGet = "value"
    /\ pre # NoPre
    /\ \E g \in Goroutines : gor[g].pc = "start"
    /\ \E t \in Threads : thr[t].pc = "get_io"

\* C6: with workers that Put keys of their own and Get the others' keys
\* meanwhile, no Put fails, every Get returns the value written for its key
\* or not-found, and when all workers are idle every written key reads back
\* its value.
WorkersReadBack ==
    /\ ~putFailed
    /\ lastGet \in {"none", "value", "notfound"}
    /\ \A k \in WorkerKeys : model[k] \in {NoValue, ValueFor(k)}
    /\ (\A t \in Threads : thr[t].pc = "idle") =>
          \A k \in WorkerKeys :
              model[k] # NoValue =>
                  GetIn(files, segments, index, k) = Found(ValueFor(k))

\* all Puts are done, over several segments, and a concurrent Get has
\* returned a value
WorkersReadBackSeen ==
    /\ puts = MaxPuts
    /\ \A t \in Threads : thr[t].pc = "idle"
    /\ lastGet = "value"
    /\ Len(segments) >= 2
    /\ \E k, l \in WorkerKeys : k # l /\ Owner(k) # Owner(l)
          /\ model[k] # NoValue /\ model[l] # NoValue

\* the tasks between their start and the reset of the flag
InProgress ==
    {g \in Goroutines : gor[g].pc \notin {"none", "wgdone", "finished"}}

\* C7: at most one compaction is in progress at any time, and there is one
\* exactly when the flag is set, so a Compact call that finds the flag set
\* starts no second task.
OneCompaction ==
    /\ Cardinality(InProgress) + Cardinality(Entering) <= 1
    /\ isCompacting <=> (InProgress \cup Entering # {})

\* a Compact call can find the flag set while a task is merging, and a task
\* has been started before
OneCompactionSeen ==
    /\ isCompacting
    /\ spawned = MaxCompactions
    /\ \E g \in Goroutines : gor[g].pc = "remove"
    /\ \E t \in Threads : thr[t].pc = "idle"
    /\ phase = "open"

\* C8: when Close has closed the segment handles, every compaction task
\* that was running when Close was called has finished.
CloseAwaitsCompaction ==
    phase = "closed" => \A g \in awaited : gor[g].pc = "finished"

\* Close was called while a task was running, and has closed the handles
CloseAwaitsCompactionSeen ==
    /\ phase = "closed"
    /\ awaited # {}
    /\ \A i \in 1..Len(segments) : ~segments[i].open

\* C9: when performCompaction has rebuilt a store of two or more segments,
\* the segment list has exactly two segments.
TwoSegmentsAfterCompaction ==
    Unlocking # {} => Len(segments) = 2

\* a compaction of three segments has completed
TwoSegmentsAfterCompactionSeen ==
    /\ Unlocking # {}
    /\ pre.nsegs = 3
    /\ Len(segments) = 2

\* C10, as claimed: after a compaction Size() is strictly less than Size()
\* before it, provided some key had been written more than once.
SizeShrinksIfOverwritten ==
    (Unlocking # {} /\ pre.size.st = "ok" /\ pre.over) =>
        (Size.st = "ok" /\ Size.value < pre.size.value)

\* C10, amended: after a compaction Size() is strictly less than Size()
\* before it, provided some key occurs more than once within the merged
\* sealed segments.
SizeShrinksIfSealedRepeat ==
    (Unlocking # {} /\ pre.size.st = "ok" /\ pre.dup) =>
        (Size.st = "ok" /\ Size.value < pre.size.value)

\* a compaction whose sealed segments held a key twice has completed
SizeShrinksIfSealedRepeatSeen ==
    /\ Unlocking # {}
    /\ pre.size.st = "ok"
    /\ pre.dup
    /\ pre.nsegs >= 3
    /\ Size.value < pre.size.value

\* C11: a store closed after a completed compaction, with no Put in
\* between, and opened again returns for every key what Get returned when
\* the compaction began, and its segment list is segment 1 and segment 2.
CompactedStoreReopens ==
    (phase = "opened" /\ expect.kind = "close" /\ pre.done) =>
        /\ GetMap = pre.map
        /\ Len(segments) = 2
        /\ segments[1].name = SegName(1)
        /\ segments[2].name = SegName(2)

\* a store of three segments with an overwritten key was compacted, closed
\* and opened again
CompactedStoreReopensSeen ==
    /\ phase = "opened"
    /\ expect.kind = "close"
    /\ pre.done
    /\ pre.nsegs >= 3
    /\ pre.over
    /\ \E k \in Keys : Get(k).st = "ok"

\* the segment files of a directory, merge files left out
SegmentFiles(fs) == [n \in {m \in DOMAIN fs : IsSegmentFile(m)} |-> fs[n]]

\* the failures of steps 1-4: creating the merge file, reading the sealed
\* segments, writing, flushing or closing the merge file
MergeFaults == {"create", "merge", "flush"}

\* C12: when a step of reading the sealed segments or of writing, flushing
\* or closing the merge file has failed, the compaction returns with the
\* merge file removed and files, segment list and index as it found them.
MergeFailureRollsBack ==
    \A g \in Goroutines :
        (gor[g].pc = "unlock" /\ gor[g].fault \in MergeFaults) =>
            /\ gor[g].mergePath \notin DOMAIN files
            /\ SegmentFiles(files) = SegmentFiles(pre.files)
            /\ segments = pre.segments
            /\ index = pre.index

\* the tasks whose performCompaction has returned an error
Errored ==
    {g \in Goroutines :
        /\ gor[g].pc \in {"reset", "wgdone", "finished"}
        /\ gor[g].fault \in {"create", "merge", "rename_merge",
                             "rename_active", "reopen"}}

\* C13: after a compaction has returned an error, no Put fails and, when
\* the lock is free, Get of every key returns the value of its latest Put.
FailedCompactionHarmless ==
    (Errored # {} /\ Quiet) =>
        /\ ~putFailed
        /\ \A k \in Keys : Get(k) = Expected(model[k])

\* C14: a Get that is in its file part (open, seek, decode) does not hold
\* db.mu.
GetReadsUnlocked ==
    \A t \in Threads : thr[t].pc = "get_io" => mu # HeldBy("thread", t)

\* C15: no Get has returned the value of a record whose key is not the
\* key it was asked for.
GetVerifiesKey ==
    lastGet # "otherkey"

\* the encoded bytes written so far, when no compaction has run
Written == SumSizes(files, segments)

\* the length of the longest record written so far
Longest ==
    LET lens == {EncodedLen(AllRecords(files, segments)[i]) :
                    i \in 1..Len(AllRecords(files, segments))}
    IN  IF lens = {} THEN 0 ELSE CHOOSE n \in lens : \A m \in lens : m <= n

\* the values of k that a run can reach
Multiples == 0..(MaxPuts * 16)

ReadsBack == Quiet => \A k \in Keys : Get(k) = Expected(model[k])

\* C16, as claimed: with maxSegmentSize = M, once the records written total
\* more than k*M bytes the list has at least k segments, and every key reads
\* back its latest value.
SegmentsPerThreshold ==
    /\ \A k \in Multiples :
          Written > k * maxSegmentSize => Len(segments) >= k
    /\ ReadsBack

\* C16, amended: with maxSegmentSize = M and R the length of the longest
\* record written, once the records written total more than k*(M + R - 1)
\* bytes the list has at least k segments, and every key reads back its
\* latest value.
SegmentsPerFilledSegment ==
    /\ \A k \in Multiples :
          Written > k * (maxSegmentSize + Longest - 1) => Len(segments) >= k
    /\ ReadsBack

\* records totalling more than twice a full segment have been written, over
\* three segments, and a key written twice reads back
SegmentsPerFilledSegmentSeen ==
    /\ Quiet
    /\ Written > 2 * (maxSegmentSize + Longest - 1)
    /\ Len(segments) = 3
    /\ \E k \in Keys : model[k] # NoValue /\ Get(k) = Found(model[k])
    /\ Repeats(AllRecords(files, segments))

\* the index entry of key k leads to a record of k that holds value v
PointsAt(k, v) ==
    LET seg == findSegment(segments, index[k].segmentNum)
    IN  /\ seg # <<>>
        /\ seg[1].name \in DOMAIN files
        /\ LET d == DecodeAt(files[seg[1].name], index[k].offset)
           IN  d.st = "ok" /\ d.rec.key = k /\ d.rec.value = v

\* C17: whenever db.mu is free, every key of the index has at its indexed
\* position, in a segment of the list, a record with that key and with the
\* value of the latest successful Put of the key.
IndexCorrect ==
    mu = Free => \A k \in DOMAIN index : PointsAt(k, model[k])

\* segment numbers rise along the list
Increasing ==
    \A i \in 1..(Len(segments) - 1) : segments[i].num < segments[i + 1].num

\* a Put step changes no file but that of the last segment of the list
PutWritesLast ==
    (puts' = puts + 1 /\ Len(segments') > 0) =>
        \A n \in DOMAIN files :
            n # segments'[Len(segments')].name =>
                (n \in DOMAIN files' /\ files'[n] = files[n])

\* C18: in every state the segment numbers are strictly increasing along
\* the segment list, and every Put leaves the files of all segments but the
\* last as they were.
NumbersIncreaseAndPutWritesLast ==
    []Increasing /\ [][PutWritesLast]_vars

\* after a completed compaction a Put has rolled over to a third segment
NumbersIncreaseAndPutWritesLastSeen ==
    /\ spawned = 1
    /\ gor[1].pc = "finished"
    /\ pre.nsegs >= 2
    /\ ~pre.done
    /\ Len(segments) = 3
    /\ segments[3].offset > 0
    /\ Increasing

\* C19: in no state does the segment list hold a segment whose file has
\* been removed from the directory.
ListedSegmentsHaveFiles ==
    \A i \in 1..Len(segments) : segments[i].name \in DOMAIN files

\* C20: whenever db.mu is free on an open store, Get of a key that no Put
\* has written returns ErrNotFound.
UnwrittenKeyNotFound ==
    Quiet => \A k \in Keys : model[k] = NoValue => Get(k) = NotFound

\* a store that was filled over three segments and compacted holds one key
\* and not the other
UnwrittenKeyNotFoundSeen ==
    /\ Quiet
    /\ pre.nsegs >= 3
    /\ \E g \in Goroutines : gor[g].pc = "finished"
    /\ \E k \in Keys : model[k] = NoValue /\ Get(k) = NotFound
    /\ \E k \in Keys : model[k] # NoValue /\ Get(k) = Found(model[k])

\* C21: Compact never waits for db.mu. In every state of the open store, also
\* one where a Get or a compaction task holds db.mu, an idle thread can run
\* Compact up to the release of compactionMu (within the budget of
\* compactions of a run when the flag is clear), a thread that has set the
\* flag can start the task and return, and neither step touches db.mu.
CompactNeverBlocks ==
    \A t \in Threads :
        /\ (/\ phase = "open"
            /\ thr[t].pc = "idle"
            /\ (isCompacting \/
                spawned + Cardinality(Entering) < MaxCompactions))
           => ENABLED (CompactEnter(t) /\ mu' = mu)
        /\ thr[t].pc = "compact_add"
           => ENABLED (CompactSpawn(t) /\ mu' = mu /\ thr'[t] = Idle)

\* Compact has returned to one thread while the other one is inside Get
\* with db.mu held, and a task is about to start while a thread holds db.mu
CompactNeverBlocksSeen ==
    /\ mu.holder = "thread"
    /\ \E g \in Goroutines : gor[g].pc = "start"
    /\ \E t \in Threads : thr[t].pc = "idle" /\ mu.id # t

\* C22: under fair scheduling every compaction returns to idle, whether
\* performCompaction returned an error or not: the isCompacting flag is
\* clear again and again (a set flag is eventually reset, so a later Compact
\* can start a compaction), and no task stays short of the end of its
\* deferred functions, where the wait-group count it added is taken back.
CompactionReturnsToIdle ==
    /\ []<>(~isCompacting)
    /\ \A g \in Goroutines : []<>(gor[g].pc \in {"none", "finished"})

\* a compaction that failed is over, the flag was reset and a later Compact
\* has started the next one
CompactionReturnsToIdleSeen ==
    /\ spawned = 2
    /\ gor[1].pc = "finished"
    /\ gor[1].fault # "none"
    /\ gor[2].pc = "start"

\* C23: a Put whose write fails leaves the index as it was: in every step
\* that is a Put returning an error, no index entry is added or modified.
FailedWriteKeepsIndex ==
    [][(puts' = puts + 1 /\ lastPut' = "err") => index' = index]_vars

\* a Put returned a write error on a store whose index has entries, and
\* every entry still points at the record of the last successful Put
FailedWriteKeepsIndexSeen ==
    /\ lastPut = "err"
    /\ phase = "open"
    /\ faults = 1
    /\ \A g \in Goroutines : gor[g].pc = "none"
    /\ index # EmptyIndex
    /\ \A k \in DOMAIN index : PointsAt(k, model[k])

\* C24: when Open returns an error because openSegment failed on a segment
\* file or recoverSegment failed on a segment, every segment handle that
\* this call of Open had opened is closed.
OpenFailureClosesHandles ==
    phase = "failed" => \A i \in 1..Len(segments) : ~segments[i].open

\* Open failed after it had opened two segments or more
OpenFailureClosesHandlesSeen ==
    /\ phase = "failed"
    /\ Len(segments) >= 2

\* C25: merge files are never part of the store. In every state no segment
\* of the list has a name that ends with .merge, every index entry whose
\* segment is in the list refers to a file without that suffix, and the
\* directory scan of Open and of the rebuild after a compaction yields no
\* such name, whatever merge files the directory holds.
NoMergeFileInStore ==
    /\ \A i \in 1..Len(segments) : segments[i].name.suffix # ".merge"
    /\ \A k \in DOMAIN index :
          \A sg \in {segments[i] : i \in 1..Len(segments)} :
              sg.num = index[k].segmentNum => sg.name.suffix # ".merge"
    /\ \A i \in 1..Len(ScanDir(files)) : ScanDir(files)[i].suffix # ".merge"

\* Open has run on a directory that holds a merge file, left by a process
\* that stopped during a compaction
NoMergeFileInStoreSeen ==
    /\ phase = "open"
    /\ opens = 1
    /\ crashes = 1
    /\ \A g \in Goroutines : gor[g].pc = "none"
    /\ \E n \in DOMAIN files : n.suffix = ".merge"
    /\ index # EmptyIndex

\* C26: a sealed segment is immutable. In every step, the file of a segment
\* that is in the list and not the last of it is, if the step leaves a file
\* of that name, the same sequence of records (so the same size) after the
\* step as before: only its removal by a compaction ends it.
SealedSegmentsKeepContent ==
    [][\A i \in 1..(Len(segments) - 1) :
          LET n == segments[i].name
          IN  (n \in DOMAIN files /\ n \in DOMAIN files')
                  => files'[n] = files[n]]_vars

\* three Puts have gone to three segments: the first two are sealed, each
\* with the record it had when it was sealed
SealedSegmentsKeepContentSeen ==
    /\ Quiet
    /\ Len(segments) = 3
    /\ puts = 3
    /\ \A i \in 1..2 : /\ segments[i].name \in DOMAIN files
                       /\ Len(files[segments[i].name]) = 1

\* the tasks whose performCompaction is about to return nil after a merge
Merged == {g \in Unlocking : gor[g].fault = "none" /\ pre.nsegs >= 2}

\* the layout of the store when a compaction that succeeded releases db.mu
LayoutAfterCompaction ==
    Merged # {} =>
        LET was == getActiveSegment(pre.segments)
            merged == MergedKeys(EmptyIndex, pre.files, Sealed(pre.segments), 1)
        IN  /\ Len(segments) = 2
            /\ \A i \in 1..2 : /\ segments[i].num = i
                               /\ segments[i].name = SegName(i)
                               /\ segments[i].open
            /\ DOMAIN SegmentFiles(files) = {SegName(1), SegName(2)}
            /\ files[SegName(2)] = pre.files[was.name]
            /\ \E o \in Orders(DOMAIN merged) :
                  files[SegName(1)] =
                      MergedData(pre.files, Sealed(pre.segments), o)

\* a Put that rolls over on the store as a compaction left it
RolloverAfterCompaction ==
    (pre.done /\ puts' = puts + 1 /\ Len(segments') = Len(segments) + 1)
        => /\ Len(segments') = 3
           /\ segments'[3].num = 3
           /\ segments'[3].name = SegName(3)
           /\ SegName(3) \in DOMAIN files'

\* C27: after a successful compaction the merged records are in the file
\* numbered 1, the former active segment is, with the content it had, the
\* file numbered 2 and the active segment of the list, no other segment
\* file is left, and the next rollover creates the segment numbered 3.
PostCompactionLayout ==
    []LayoutAfterCompaction /\ [][RolloverAfterCompaction]_vars

\* a compaction of two segments succeeded and the next Put rolled over to
\* segment 3
PostCompactionLayoutSeen ==
    /\ spawned = 1
    /\ gor[1].pc = "finished"
    /\ gor[1].fault = "none"
    /\ pre.nsegs = 2
    /\ Len(segments) = 3
    /\ segments[3].num = 3
    /\ files[SegName(1)] # <<>>

\* C28: a compaction of a store with fewer than two segments does nothing.
\* The step in which its task leaves performCompaction's entry changes
\* neither the directory (no merge file is created), nor the segment list,
\* nor the index, and takes the task straight to its deferred functions.
CompactionOfOneSegmentIsNoOp ==
    [][\A g \in Goroutines :
          (gor[g].pc = "start" /\ gor'[g].pc # "start" /\ Len(segments) < 2)
              => /\ files' = files
                 /\ segments' = segments
                 /\ index' = index
                 /\ gor'[g].pc = "reset"]_vars

\* a compaction has run to its end on a store of one segment that holds
\* records: no compaction has merged anything, no merge file exists
CompactionOfOneSegmentIsNoOpSeen ==
    /\ \E g \in Goroutines : gor[g].pc = "finished"
    /\ pre = NoPre
    /\ Len(segments) = 1
    /\ index # EmptyIndex
    /\ \A n \in DOMAIN files : n.suffix # ".merge"

\* C29: every successful Put strictly increases Size(). In every step that
\* is a Put returning nil, on a store where Size() returns a value before
\* it, Size() returns a value after it and that value is strictly greater.
PutIncreasesSize ==
    [][(puts' = puts + 1 /\ lastPut' = "ok" /\ Size.st = "ok")
          => (Size'.st = "ok" /\ Size'.value > Size.value)]_vars

\* three Puts with no compaction, the last one after a rollover: Size() is
\* the sum of the three records over the segments
PutIncreasesSizeSeen ==
    /\ lastPut = "ok"
    /\ puts = 3
    /\ spawned = 0
    /\ Len(segments) >= 2
    /\ Size.st = "ok"
    /\ Size.value >= 3 * (HeaderLen + 2)

\* backend number j (from 0) is marked healthy in map m
Marked(m, j) ==
    /\ serversPool[j + 1] \in DOMAIN m
    /\ m[serversPool[j + 1]]

\* C30: selectServer(path) returns the first backend marked healthy in
\* cyclic pool order starting at index hash(path) mod poolSize, and it
\* returns an error exactly when no backend of the pool is marked healthy.
SelectsFirstHealthy ==
    lastSelect.called =>
        LET n == Len(serversPool)
            start == ModUint32(hashFunc(lastSelect.path), n)
            m == lastSelect.seen
        IN  /\ lastSelect.err <=> \A j \in 0..(n - 1) : ~Marked(m, j)
            /\ ~lastSelect.err =>
                  \E i \in 0..(n - 1) :
                      /\ Marked(m, (start + i) % n)
                      /\ lastSelect.server = serversPool[((start + i) % n) + 1]
                      /\ \A l \in 0..(i - 1) : ~Marked(m, (start + l) % n)

\* a request whose start backend and the next one were not marked healthy
\* got the third backend in cyclic order, which wraps around the pool
SelectsFirstHealthySeen ==
    /\ lastSelect.called
    /\ ~lastSelect.err
    /\ LET n == Len(serversPool)
           start == ModUint32(hashFunc(lastSelect.path), n)
       IN  /\ start = 2
           /\ lastSelect.server = serversPool[2]
           /\ serversPool[3] \in DOMAIN lastSelect.seen
           /\ serversPool[1] \notin DOMAIN lastSelect.seen

\* C31: a series of requests for the path /api/v1/some-data that differ in
\* the query string only, sent while every backend is marked healthy, is
\* handled by at least two different backends.
SeriesReachesTwoBackends ==
    (series.count = requestCount /\ series.allHealthy)
        => Cardinality(series.from) >= 2

\* the records a Put may write
Records == {[key |-> k, value |-> v] : k \in Keys, v \in Values}

\* C32: the rollover rule. A Put whose active segment has an offset of
\* maxSegmentSize or more before it adds exactly one segment to the end of
\* the list, numbered one more than the active one, and its record is the
\* only thing written, to that new segment. Any other Put adds no segment
\* and appends its record to the active segment, also when the segment
\* then ends beyond maxSegmentSize.
RolloverRule ==
    [][(puts' = puts + 1 /\ lastPut' = "ok") =>
          LET a == getActiveSegment(segments)
              n == Len(segments)
              last == segments'[Len(segments')]
          IN  IF a.offset >= maxSegmentSize
              THEN /\ Len(segments') = n + 1
                   /\ SubSeq(segments', 1, n) = segments
                   /\ last.num = a.num + 1
                   /\ files'[a.name] = files[a.name]
                   /\ \E e \in Records :
                         /\ files'[last.name] = <<e>>
                         /\ last.offset = EncodedLen(e)
              ELSE /\ Len(segments') = n
                   /\ SubSeq(segments', 1, n - 1) = SubSeq(segments, 1, n - 1)
                   /\ last.num = a.num
                   /\ \E e \in Records :
                         /\ files'[a.name] = Append(files[a.name], e)
                         /\ last.offset = a.offset + EncodedLen(e)]_vars

\* the first segment took a record that ended beyond maxSegmentSize, and
\* the Put after that one rolled over to segment 2
RolloverRuleSeen ==
    /\ lastPut = "ok"
    /\ Len(segments) = 2
    /\ segments[1].offset > maxSegmentSize
    /\ Len(files[segments[1].name]) >= 2
    /\ Len(files[segments[2].name]) = 1

\* the segment files of the directory in which key k has a record
FilesWith(k) ==
    {n \in DOMAIN files :
        IsSegmentFile(n) /\ \E i \in 1..Len(files[n]) : files[n][i].key = k}

\* C33: when Open has rebuilt the index, the index has an entry for exactly
\* the keys that have a record in some segment file, and the entry of a key
\* is (n, o): n the highest number of a segment file with a record of the
\* key, o the sum of the encoded lengths of the records that precede the
\* last record of the key in that file.
RecoveryIsLastWriterWins ==
    phase = "opened" =>
        /\ DOMAIN index = {k \in Keys : FilesWith(k) # {}}
        /\ \A k \in DOMAIN index :
              LET n == CHOOSE m \in FilesWith(k) :
                           \A l \in FilesWith(k) : extractNum(l) <= extractNum(m)
                  recs == files[n]
                  i == CHOOSE j \in 1..Len(recs) :
                           /\ recs[j].key = k
                           /\ \A l \in (j + 1)..Len(recs) : recs[l].key # k
              IN  /\ index[k].segmentNum = extractNum(n)
                  /\ index[k].offset = FileSize(SubSeq(recs, 1, i - 1))

\* Open has recovered a key that has records in two segment files, the last
\* one not at the start of its file
RecoveryIsLastWriterWinsSeen ==
    /\ phase = "opened"
    /\ \E k \in DOMAIN index :
          /\ Cardinality(FilesWith(k)) >= 2
          /\ index[k].offset > 0
          /\ index[k].segmentNum > 1

\* the positions of the records of key k in a sequence of records
PositionsOf(recs, k) == {i \in 1..Len(recs) : recs[i].key = k}

\* the records of the segments that were sealed when the compaction took
\* the lock, in the order of the list and of each file
SealedRecordsBefore ==
    AllRecords(pre.files, SubSeq(pre.segments, 1, pre.nsegs - 1))

\* C34: when a compaction that succeeded releases the lock, the file of
\* segment 1 holds one record for every key that had a record in a sealed
\* segment and no other record, and the record of a key holds the value of
\* the key's last record in the sealed segments taken in ascending segment
\* number and offset; the records of the active segment take no part.
MergedSegmentContent ==
    Merged # {} =>
        /\ \A i \in 1..(pre.nsegs - 2) :
              pre.segments[i].num < pre.segments[i + 1].num
        /\ \A k \in Keys :
              LET old == PositionsOf(SealedRecordsBefore, k)
                  new == PositionsOf(files[SegName(1)], k)
              IN  IF old = {}
                  THEN new = {}
                  ELSE /\ Cardinality(new) = 1
                       /\ \A i \in new : \A j \in old :
                             (\A l \in old : l <= j) =>
                                 files[SegName(1)][i].value
                                     = SealedRecordsBefore[j].value

\* a compaction succeeded on a store whose sealed segments held two
\* records of different values for one key and whose active segment held a
\* key that no sealed segment had
MergedSegmentContentSeen ==
    /\ Merged # {}
    /\ \E k \in Keys :
          \E i, j \in PositionsOf(SealedRecordsBefore, k) :
              SealedRecordsBefore[i].value # SealedRecordsBefore[j].value
    /\ \E k \in Keys :
          /\ PositionsOf(SealedRecordsBefore, k) = {}
          /\ PositionsOf(files[SegName(2)], k) # {}

\* C35: under every interleaving of a Compact call with a Close call, no
\* compaction task is inside performCompaction, holding db.mu, on a store
\* whose segment handles Close has closed.
NoCompactionAfterClose ==
    phase = "closed" => Compacting = {}

\* C36: after a compaction in which the removal of a sealed segment file
\* failed, Get of every key returns the value of the latest Put of the key.
FailedRemoveKeepsLatest ==
    (Quiet /\ faults > 0) =>
        \A k \in Keys : model[k] # NoValue => Get(k) = Found(model[k])

\* no goroutine holds db.mu where it takes compactionMu, and the holder of
\* compactionMu does not wait for db.mu
LockOrder ==
    /\ \A g \in Goroutines :
          gor[g].pc \in {"reset", "wgdone"} => mu # TaskLock(g)
    /\ \A g \in Goroutines :
          gor[g].pc = "reset" => ENABLED (CompactionReset(g) /\ mu' = mu)
    /\ \A t \in Threads :
          thr[t].pc \in {"compact_add", "close_wait", "close_lock"}
              => mu # HeldBy("thread", t)

\* C37: no goroutine waits for one of the two locks while it holds the
\* other, and under fair scheduling every call returns: a thread inside
\* Get, Compact or Close is idle again, db.mu is free again and again, so
\* that a Put or a Size that waits for it proceeds, and a Close that was
\* called completes.
CallsTerminate ==
    /\ []LockOrder
    /\ \A t \in Threads : []<>(thr[t].pc = "idle")
    /\ []<>(mu = Free)
    /\ []<>(phase # "closing")

\* Close has completed although a Get held db.mu and two compaction tasks
\* were started before it
CallsTerminateSeen ==
    /\ phase = "closed"
    /\ spawned = 2
    /\ lastGet = "value"
    /\ \A g \in Goroutines : gor[g].pc = "finished"
    /\ pre.nsegs >= 2

\* C38: in every state of a store that was opened on an empty directory,
\* whatever Puts, rollovers and compactions that succeeded came before, the
\* segment at position i of the list has the number i, for i in 1..n, and
\* the file name of that number.
SegmentNumbersAreDense ==
    \A i \in 1..Len(segments) :
        /\ segments[i].num = i
        /\ segments[i].name = SegName(i)

\* a compaction has left segments 1 and 2, its task is over, and a later
\* Put has rolled over to segment 3
SegmentNumbersAreDenseSeen ==
    /\ Quiet
    /\ pre.nsegs >= 2
    /\ Len(segments) = 3
    /\ segments[3].num = 3
    /\ gor[1].pc = "finished"

\* C39: when a compaction that succeeded releases the lock, Size() is at
\* most what it was when the compaction took the lock, and it is the same
\* exactly when no key had more than one record in the sealed segments.
CompactionNeverGrowsSize ==
    (Merged # {} /\ pre.size.st = "ok") =>
        /\ Size.st = "ok"
        /\ Size.value <= pre.size.value
        /\ (Size.value = pre.size.value) <=> ~pre.dup

\* a compaction of three segments whose sealed segments held every key
\* once has left the size as it was
CompactionNeverGrowsSizeSeen ==
    /\ Merged # {}
    /\ pre.size.st = "ok"
    /\ pre.nsegs >= 3
    /\ ~pre.dup
    /\ pre.over
    /\ Size = pre.size

====
